---- MODULE Spec2Model ----
(***************************************************************************)
(* A model of the conversational CAD-code service of src/app/services/     *)
(* models.py: the request classifier, the slot-filling extractor, the      *)
(* template catalogue with its cache, the code synthesizer and the         *)
(* per-user conversation state machine.                                    *)
(*                                                                         *)
(* Text is modelled at character level: a Python str is a TLA+ string and  *)
(* the regular expressions of the source are operators over positions.     *)
(* A Python float is an exact decimal, held as an integer number of        *)
(* thousandths (Scale); the inputs carry at most one fractional digit, so   *)
(* every product with a unit factor is exact.                              *)
(***************************************************************************)
EXTENDS Integers, Sequences, FiniteSets, TLC

VARIABLES
    fn,             \* the function or handler last called
    arg,            \* its input
    ret,            \* its result (NoRet before the call)
    pc,             \* "ready" before the call, "done" after it
    model_loaded,   \* LLMService.model_loaded
    template_cache, \* WebCrawler.template_cache: cache key -> template
    user_states,    \* LLMService.user_states: user id -> conversation state
    models,         \* the model files MediaService.save_model has written
    lookups,        \* history: the cache key of every run of the search pipeline
    synth,          \* history: the arguments of every call of generate_code
    steps,          \* history: one record for every call handled, in order
    calls,          \* the number of handler calls so far
    rate_limiters,  \* SecurityManager.rate_limiters: key -> requests, blocked_until
    now,            \* the clock time.time() reads
    token_files,    \* the files of TokenManager: user id -> balance, transactions
    workers,        \* the calls of TokenManager in progress, one per thread
    orders,         \* the files of PaymentController: order id -> order
    razorpay_service \* PaymentController.razorpay_service: "none", "mock" or "client"

service == <<model_loaded, template_cache, user_states, models, lookups, synth, steps, calls>>

\* the state of the collaborators around the conversation service
platform == <<rate_limiters, now, token_files, workers, orders, razorpay_service>>

vars == <<fn, arg, ret, pc, service, platform>>

NoRet == [none |-> TRUE]

\* the collaborators before any call: SecurityManager.__init__, empty
\* token and payment directories, no payment service
PlatformIdle ==
    /\ rate_limiters = <<>>
    /\ now = 0
    /\ token_files = <<>>
    /\ workers = <<>>
    /\ orders = <<>>
    /\ razorpay_service = "none"

\* the fields as LLMService.__init__ and WebCrawler.__init__ leave them: the
\* constructor returns only when _load_model succeeded
Constructed ==
    /\ model_loaded = TRUE
    /\ template_cache = <<>>
    /\ user_states = <<>>
    /\ models = <<>>
    /\ lookups = <<>>
    /\ synth = <<>>
    /\ steps = <<>>
    /\ calls = 0

(***************************************************************************)
(* Python str primitives                                                   *)
(***************************************************************************)

\* str.__contains__: k in s
Contains(s, k) ==
    \E i \in 1..(Len(s) - Len(k) + 1) : SubSeq(s, i, i + Len(k) - 1) = k

\* s[i] (1-based), "" when out of range
At(s, i) == IF i >= 1 /\ i <= Len(s) THEN SubSeq(s, i, i) ELSE ""

\* s.startswith(k, pos) with pos 1-based
StartsAt(s, i, k) == i >= 1 /\ i + Len(k) - 1 <= Len(s) /\ SubSeq(s, i, i + Len(k) - 1) = k

UpperChars == <<"A","B","C","D","E","F","G","H","I","J","K","L","M",
                "N","O","P","Q","R","S","T","U","V","W","X","Y","Z">>
LowerChars == <<"a","b","c","d","e","f","g","h","i","j","k","l","m",
                "n","o","p","q","r","s","t","u","v","w","x","y","z">>

LowerCh(c) ==
    IF \E i \in 1..26 : UpperChars[i] = c
    THEN LowerChars[CHOOSE i \in 1..26 : UpperChars[i] = c]
    ELSE c

RECURSIVE Lower(_)
\* str.lower()
Lower(s) ==
    IF Len(s) <= 1 THEN LowerCh(s)
    ELSE LET h == Len(s) \div 2
         IN  Lower(SubSeq(s, 1, h)) \o Lower(SubSeq(s, h + 1, Len(s)))

IsDigit(c) == c \in {"0","1","2","3","4","5","6","7","8","9"}
IsOctDigit(c) == c \in {"0","1","2","3","4","5","6","7"}
IsSpace(c) == c \in {" ", "\t", "\n", "\r", "\f"}
IsAlpha(c) == (\E i \in 1..26 : UpperChars[i] = c) \/ (\E i \in 1..26 : LowerChars[i] = c)
\* the regex class \w
IsWord(c) == IsAlpha(c) \/ IsDigit(c) \/ c = "_"

RECURSIVE LStrip(_)
LStrip(s) == IF s # "" /\ IsSpace(Head(s)) THEN LStrip(Tail(s)) ELSE s
RECURSIVE RStrip(_)
RStrip(s) == IF s # "" /\ IsSpace(At(s, Len(s))) THEN RStrip(SubSeq(s, 1, Len(s) - 1)) ELSE s
\* str.strip()
Strip(s) == RStrip(LStrip(s))

(***************************************************************************)
(* ModelRequestClassifier: LLMService._is_model_request                    *)
(***************************************************************************)

model_keywords == <<"create", "generate", "make", "build", "design", "model",
                    "3d model", "3d object", "3d print", "openscad">>

object_keywords == <<"cube", "box", "sphere", "ball", "cylinder", "tube", "cone",
                     "pyramid", "object", "shape", "gear", "bracket", "holder",
                     "stand", "case", "container", "part">>

\* any(keyword in text for keyword in keywords)
AnyKeywordIn(keywords, text) == \E i \in 1..Len(keywords) : Contains(text, keywords[i])

Mut_is_model_request_NoLower(message) ==
    AnyKeywordIn(model_keywords, message) /\ AnyKeywordIn(object_keywords, message)

is_model_request(message) ==
    LET message_lower == Lower(message)
        has_model_keyword == AnyKeywordIn(model_keywords, message_lower)
        has_object_keyword == AnyKeywordIn(object_keywords, message_lower)
    IN  has_model_keyword /\ has_object_keyword

(***************************************************************************)
(* Python values: float (exact decimal, n thousandths), int, bool, str     *)
(***************************************************************************)

Scale == 1000

FloatV(n) == [t |-> "float", n |-> n, s |-> ""]
IntV(n)   == [t |-> "int", n |-> n, s |-> ""]
BoolV(b)  == [t |-> "bool", n |-> IF b THEN 1 ELSE 0, s |-> ""]
StrV(s)   == [t |-> "str", n |-> 0, s |-> s]

Digits == <<"0","1","2","3","4","5","6","7","8","9">>
DigitVal(c) == (CHOOSE i \in 1..10 : Digits[i] = c) - 1

RECURSIVE DigitsVal(_)
\* int() of a string of decimal digits ("" is 0)
DigitsVal(s) ==
    IF s = "" THEN 0
    ELSE DigitsVal(SubSeq(s, 1, Len(s) - 1)) * 10 + DigitVal(At(s, Len(s)))

RECURSIVE NatStr(_)
\* str() of a natural number
NatStr(n) == IF n < 10 THEN Digits[n + 1] ELSE NatStr(n \div 10) \o Digits[(n % 10) + 1]

IntStr(n) == IF n < 0 THEN "-" \o NatStr(0 - n) ELSE NatStr(n)

RECURSIVE StripZeros(_)
StripZeros(s) ==
    IF Len(s) > 1 /\ At(s, Len(s)) = "0" THEN StripZeros(SubSeq(s, 1, Len(s) - 1)) ELSE s

\* the three fractional digits of n thousandths, shortest form, at least one
FracStr(m) ==
    LET d3 == Digits[(m \div 100) + 1] \o Digits[((m \div 10) % 10) + 1] \o Digits[(m % 10) + 1]
    IN  StripZeros(d3)

\* str() of a float held as n thousandths: 10000 is "10.0", 50800 is "50.8"
FloatStr(n) ==
    LET a == IF n < 0 THEN 0 - n ELSE n
    IN  (IF n < 0 THEN "-" ELSE "") \o NatStr(a \div Scale) \o "." \o FracStr(a % Scale)

\* str(value), as an f-string formats it
PyStr(v) ==
    CASE v.t = "float" -> FloatStr(v.n)
      [] v.t = "int"   -> IntStr(v.n)
      [] v.t = "bool"  -> (IF v.n = 1 THEN "True" ELSE "False")
      [] OTHER         -> v.s

\* the least element of a non-empty set of positions
MinOf(S) == CHOOSE x \in S : \A y \in S : x <= y

\* s.find(c, i): the first position >= i holding c, 0 when none
IndexOf(s, c, i) ==
    LET hits == {j \in i..(Len(s) - Len(c) + 1) : StartsAt(s, j, c)}
    IN  IF hits = {} THEN 0 ELSE MinOf(hits)

\* float() of text matching \d+\.?\d* , in thousandths
ParseNumber(text) ==
    LET dot == IndexOf(text, ".", 1)
        ip  == IF dot = 0 THEN text ELSE SubSeq(text, 1, dot - 1)
        fp  == IF dot = 0 THEN "" ELSE SubSeq(text, dot + 1, Len(text))
        fp3 == SubSeq(fp \o "000", 1, 3)
    IN  DigitsVal(ip) * Scale + DigitsVal(fp3)

RECURSIVE AllDigits(_)
AllDigits(s) == s = "" \/ (IsDigit(Head(s)) /\ AllDigits(Tail(s)))

\* whether float(text) succeeds: surrounding blanks, a sign, digits with at
\* most one point and at least one digit (exponents are not in the inputs)
FloatParses(text) ==
    LET u    == Strip(text)
        body == IF u # "" /\ Head(u) \in {"-", "+"} THEN Tail(u) ELSE u
        dot  == IndexOf(body, ".", 1)
        ip   == IF dot = 0 THEN body ELSE SubSeq(body, 1, dot - 1)
        fp   == IF dot = 0 THEN "" ELSE SubSeq(body, dot + 1, Len(body))
    IN  AllDigits(ip) /\ AllDigits(fp) /\ (ip # "" \/ fp # "")

\* float(text) when FloatParses(text), in thousandths
FloatOf(text) ==
    LET u    == Strip(text)
        neg  == u # "" /\ Head(u) = "-"
        body == IF u # "" /\ Head(u) \in {"-", "+"} THEN Tail(u) ELSE u
        full == IF body # "" /\ Head(body) = "." THEN "0" \o body ELSE body
        m    == ParseNumber(full)
    IN  IF neg THEN 0 - m ELSE m

(***************************************************************************)
(* Python dict: insertion-ordered, a sequence of [k, v] with distinct keys *)
(***************************************************************************)

EmptyDict == <<>>
DictHas(d, k) == \E i \in 1..Len(d) : d[i].k = k
DictGet(d, k) == d[CHOOSE i \in 1..Len(d) : d[i].k = k].v
\* d.get(k, default)
DictGetOr(d, k, default) == IF DictHas(d, k) THEN DictGet(d, k) ELSE default
\* d[k] = v: an existing key keeps its place, a new key goes last
DictSet(d, k, v) ==
    IF DictHas(d, k)
    THEN [i \in 1..Len(d) |-> IF d[i].k = k THEN [k |-> k, v |-> v] ELSE d[i]]
    ELSE Append(d, [k |-> k, v |-> v])
RECURSIVE DictUpdate(_, _)
\* d.update(e)
DictUpdate(d, e) ==
    IF e = <<>> THEN d ELSE DictUpdate(DictSet(d, Head(e).k, Head(e).v), Tail(e))
DictKeys(d) == { d[i].k : i \in 1..Len(d) }

(***************************************************************************)
(* Regular-expression pieces shared by the parsers                         *)
(***************************************************************************)

RECURSIVE SkipSpaces(_, _)
\* the end of a greedy \s* begun at i
SkipSpaces(s, i) == IF IsSpace(At(s, i)) THEN SkipSpaces(s, i + 1) ELSE i

RECURSIVE SkipDigits(_, _)
\* the end of a greedy \d* begun at i
SkipDigits(s, i) == IF IsDigit(At(s, i)) THEN SkipDigits(s, i + 1) ELSE i

\* the end of a greedy \d+\.?\d* begun at a digit at i
NumEnd(s, i) ==
    LET j == SkipDigits(s, i)
    IN  IF At(s, j) = "." THEN SkipDigits(s, j + 1) ELSE j

NoMatch == [ok |-> FALSE, pos |-> 0, end |-> 0, num |-> ""]
Match(pos, end, num) == [ok |-> TRUE, pos |-> pos, end |-> end, num |-> num]

\* \s+(\d+\.?\d*) at i: the number after at least one blank
SpacesNumberAt(s, i) ==
    LET b == SkipSpaces(s, i)
    IN  IF b > i /\ IsDigit(At(s, b))
        THEN Match(i, NumEnd(s, b), SubSeq(s, b, NumEnd(s, b) - 1))
        ELSE NoMatch

\* (\d+\.?\d*)\s*<unit> at i
UnitAt(s, i, unit) ==
    IF ~IsDigit(At(s, i)) THEN NoMatch
    ELSE LET e == NumEnd(s, i)
             f == SkipSpaces(s, e)
         IN  IF StartsAt(s, f, unit)
             THEN Match(i, f + Len(unit), SubSeq(s, i, e - 1))
             ELSE NoMatch

RECURSIVE SearchUnit(_, _, _)
\* re.search from position i: the leftmost match of (\d+\.?\d*)\s*<unit>
SearchUnit(s, p, i) ==
    IF i > Len(s) THEN NoMatch
    ELSE IF UnitAt(s, i, p).ok THEN UnitAt(s, i, p)
    ELSE SearchUnit(s, p, i + 1)

RECURSIVE FindUnits(_, _, _)
\* re.finditer(r'(\d+\.?\d*)\s*<unit>', s): the matches left to right, none
\* overlapping
FindUnits(s, unit, i) ==
    LET m == SearchUnit(s, unit, i)
    IN  IF ~m.ok THEN <<>> ELSE <<m>> \o FindUnits(s, unit, m.end)

\* message_lower[max(0, match.start() - 20):match.start()]
LookbackWindow == 20
ContextBefore(s, pos) ==
    SubSeq(s, IF pos - LookbackWindow > 1 THEN pos - LookbackWindow ELSE 1, pos - 1)

\* units_patterns: the suffix and its factor in tenths, in the source's order
units_patterns == << [unit |-> "mm", factor10 |-> 10],
                     [unit |-> "cm", factor10 |-> 100],
                     [unit |-> "m",  factor10 |-> 10000],
                     [unit |-> "in", factor10 |-> 254] >>

\* float(match.group(1)) * factor, in thousandths
UnitValue(num, factor10) == (ParseNumber(num) * factor10) \div 10

(***************************************************************************)
(* parse_request: LLMService._parse_model_request                          *)
(***************************************************************************)

\* the model type chosen by keyword, "cube" when none matches
ModelTypeOf(message_lower) ==
    IF Contains(message_lower, "sphere") \/ Contains(message_lower, "ball") THEN "sphere"
    ELSE IF Contains(message_lower, "cylinder") \/ Contains(message_lower, "tube") THEN "cylinder"
    ELSE IF Contains(message_lower, "cone") THEN "cone"
    ELSE IF Contains(message_lower, "pyramid") THEN "pyramid"
    ELSE IF Contains(message_lower, "gear") THEN "gear"
    ELSE "cube"

\* <keyword>(?:\s+of)?\s+(\d+\.?\d*) at i
KeywordNumberAt(s, i, keyword) ==
    IF ~StartsAt(s, i, keyword) THEN NoMatch
    ELSE LET a == i + Len(keyword)
             b == SkipSpaces(s, a)
             viaOf == IF b > a /\ StartsAt(s, b, "of") THEN SpacesNumberAt(s, b + 2) ELSE NoMatch
         IN  IF viaOf.ok THEN Match(i, viaOf.end, viaOf.num)
             ELSE IF SpacesNumberAt(s, a).ok
                  THEN Match(i, SpacesNumberAt(s, a).end, SpacesNumberAt(s, a).num)
                  ELSE NoMatch

RECURSIVE SearchKeywordNumber(_, _, _)
\* re.search from position i: the leftmost match of <keyword>(?:\s+of)?\s+(\d+\.?\d*)
SearchKeywordNumber(s, p, i) ==
    IF i > Len(s) THEN NoMatch
    ELSE IF KeywordNumberAt(s, i, p).ok THEN KeywordNumberAt(s, i, p)
    ELSE SearchKeywordNumber(s, p, i + 1)

\* one dimension keyword of the first pass: re.search and the assignment
KeywordPass(params, s, keyword, name, halve) ==
    LET m == SearchKeywordNumber(s, keyword, 1)
    IN  IF m.ok
        THEN DictSet(params, name,
                     FloatV(IF halve THEN ParseNumber(m.num) \div 2 ELSE ParseNumber(m.num)))
        ELSE params

\* the dimension a measurement is attributed to by its context: the name and
\* whether the value is halved; "" when no keyword is in the window
ParseContextTarget(context) ==
    IF Contains(context, "width") \/ Contains(context, "wide") THEN <<"width", FALSE>>
    ELSE IF Contains(context, "height") \/ Contains(context, "high") \/ Contains(context, "tall")
         THEN <<"height", FALSE>>
    ELSE IF Contains(context, "depth") \/ Contains(context, "deep") THEN <<"depth", FALSE>>
    ELSE IF Contains(context, "radius") THEN <<"radius", FALSE>>
    ELSE IF Contains(context, "diameter") THEN <<"radius", TRUE>>
    ELSE <<"", FALSE>>

\* the body of the inner loop: one measurement assigned to the target its
\* context gives (a name and whether the value is halved)
AssignMeasurement(params, value, tgt) ==
    IF tgt[1] = "" THEN params
    ELSE DictSet(params, tgt[1], FloatV(IF tgt[2] THEN value \div 2 ELSE value))

RECURSIVE ParseMeasurements(_, _, _, _)
\* for match in re.finditer(pattern, message_lower), in parse_request
ParseMeasurements(params, s, ms, factor10) ==
    IF ms = <<>> THEN params
    ELSE ParseMeasurements(
             AssignMeasurement(params, UnitValue(Head(ms).num, factor10),
                               ParseContextTarget(ContextBefore(s, Head(ms).pos))),
             s, Tail(ms), factor10)

RECURSIVE ParseUnitsPass(_, _, _)
\* for pattern, factor in units_patterns, in parse_request
ParseUnitsPass(params, s, k) ==
    IF k > Len(units_patterns) THEN params
    ELSE ParseUnitsPass(ParseMeasurements(params, s, FindUnits(s, units_patterns[k].unit, 1),
                                          units_patterns[k].factor10),
                        s, k + 1)

parse_model_request(message) ==
    LET message_lower == Lower(message)
        p1 == KeywordPass(EmptyDict, message_lower, "width", "width", FALSE)
        p2 == KeywordPass(p1, message_lower, "height", "height", FALSE)
        p3 == KeywordPass(p2, message_lower, "depth", "depth", FALSE)
        p4 == KeywordPass(p3, message_lower, "radius", "radius", FALSE)
        p5 == KeywordPass(p4, message_lower, "diameter", "radius", TRUE)
    IN  [type |-> ModelTypeOf(message_lower),
         parameters |-> ParseUnitsPass(p5, message_lower, 1)]

(***************************************************************************)
(* ParameterExtractor: LLMService._extract_parameters_from_message         *)
(***************************************************************************)

\* <name>\s+(?:is|should be|=)\s+(\d+\.?\d*) at i
NameIsNumberAt(s, i, name) ==
    IF ~StartsAt(s, i, name) THEN NoMatch
    ELSE LET a == i + Len(name)
             b == SkipSpaces(s, a)
             c == IF StartsAt(s, b, "is") THEN b + 2
                  ELSE IF StartsAt(s, b, "should be") THEN b + 9
                  ELSE IF StartsAt(s, b, "=") THEN b + 1
                  ELSE 0
         IN  IF b > a /\ c > 0 /\ SpacesNumberAt(s, c).ok
             THEN Match(i, SpacesNumberAt(s, c).end, SpacesNumberAt(s, c).num)
             ELSE NoMatch

\* <name>\s+(?:to|=)\s+(\d+\.?\d*) at i
NameToNumberAt(s, i, name) ==
    IF ~StartsAt(s, i, name) THEN NoMatch
    ELSE LET a == i + Len(name)
             b == SkipSpaces(s, a)
             c == IF StartsAt(s, b, "to") THEN b + 2
                  ELSE IF StartsAt(s, b, "=") THEN b + 1
                  ELSE 0
         IN  IF b > a /\ c > 0 /\ SpacesNumberAt(s, c).ok
             THEN Match(i, SpacesNumberAt(s, c).end, SpacesNumberAt(s, c).num)
             ELSE NoMatch

\* (?:set|make)\s+(?:the)?\s*<name>\s+(?:to|=)\s+(\d+\.?\d*) at i
SetNameToNumberAt(s, i, name) ==
    LET a == IF StartsAt(s, i, "set") THEN i + 3
             ELSE IF StartsAt(s, i, "make") THEN i + 4
             ELSE 0
        b == SkipSpaces(s, a)
        viaThe == IF StartsAt(s, b, "the")
                  THEN NameToNumberAt(s, SkipSpaces(s, b + 3), name)
                  ELSE NoMatch
        direct == NameToNumberAt(s, b, name)
    IN  IF a = 0 \/ b = a THEN NoMatch
        ELSE IF viaThe.ok THEN Match(i, viaThe.end, viaThe.num)
        ELSE IF direct.ok THEN Match(i, direct.end, direct.num)
        ELSE NoMatch

\* <name>:\s*(\d+\.?\d*) at i
NameColonNumberAt(s, i, name) ==
    IF ~StartsAt(s, i, name \o ":") THEN NoMatch
    ELSE LET b == SkipSpaces(s, i + Len(name) + 1)
         IN  IF IsDigit(At(s, b)) THEN Match(i, NumEnd(s, b), SubSeq(s, b, NumEnd(s, b) - 1))
             ELSE NoMatch

RECURSIVE SearchNameIs(_, _, _)
\* re.search from position i: the leftmost match of the first pattern
SearchNameIs(s, p, i) ==
    IF i > Len(s) THEN NoMatch
    ELSE IF NameIsNumberAt(s, i, p).ok THEN NameIsNumberAt(s, i, p)
    ELSE SearchNameIs(s, p, i + 1)

RECURSIVE SearchSetName(_, _, _)
\* re.search from position i: the leftmost match of the second pattern
SearchSetName(s, p, i) ==
    IF i > Len(s) THEN NoMatch
    ELSE IF SetNameToNumberAt(s, i, p).ok THEN SetNameToNumberAt(s, i, p)
    ELSE SearchSetName(s, p, i + 1)

RECURSIVE SearchNameColon(_, _, _)
\* re.search from position i: the leftmost match of the third pattern
SearchNameColon(s, p, i) ==
    IF i > Len(s) THEN NoMatch
    ELSE IF NameColonNumberAt(s, i, p).ok THEN NameColonNumberAt(s, i, p)
    ELSE SearchNameColon(s, p, i + 1)

\* the three patterns of one parameter name, the first that matches wins
PatternPass(params, s, name) ==
    LET m1 == SearchNameIs(s, name, 1)
        m2 == SearchSetName(s, name, 1)
        m3 == SearchNameColon(s, name, 1)
    IN  IF m1.ok THEN DictSet(params, name, FloatV(ParseNumber(m1.num)))
        ELSE IF m2.ok THEN DictSet(params, name, FloatV(ParseNumber(m2.num)))
        ELSE IF m3.ok THEN DictSet(params, name, FloatV(ParseNumber(m3.num)))
        ELSE params

RECURSIVE PatternPasses(_, _, _)
\* for param_name in needed_params.keys()
PatternPasses(params, s, needed) ==
    IF needed = <<>> THEN params
    ELSE PatternPasses(PatternPass(params, s, Head(needed).k), s, Tail(needed))

\* the if/elif chain of the extractor's measurement loop: the radius1 and
\* radius2 branches come after the radius branch
ExtractContextTarget(context) ==
    IF Contains(context, "width") \/ Contains(context, "wide") THEN <<"width", FALSE>>
    ELSE IF Contains(context, "height") \/ Contains(context, "high") \/ Contains(context, "tall")
         THEN <<"height", FALSE>>
    ELSE IF Contains(context, "depth") \/ Contains(context, "deep") THEN <<"depth", FALSE>>
    ELSE IF Contains(context, "radius") THEN <<"radius", FALSE>>
    ELSE IF Contains(context, "diameter") THEN <<"radius", TRUE>>
    ELSE IF Contains(context, "radius1") \/ Contains(context, "base radius") THEN <<"radius1", FALSE>>
    ELSE IF Contains(context, "radius2") \/ Contains(context, "top radius") THEN <<"radius2", FALSE>>
    ELSE <<"", FALSE>>

RECURSIVE ExtractMeasurements(_, _, _, _)
\* for match in re.finditer(pattern, message_lower), in extract
ExtractMeasurements(params, s, ms, factor10) ==
    IF ms = <<>> THEN params
    ELSE ExtractMeasurements(
             AssignMeasurement(params, UnitValue(Head(ms).num, factor10),
                               ExtractContextTarget(ContextBefore(s, Head(ms).pos))),
             s, Tail(ms), factor10)

RECURSIVE ExtractUnitsPass(_, _, _)
\* for pattern, factor in units_patterns, in extract
ExtractUnitsPass(params, s, k) ==
    IF k > Len(units_patterns) THEN params
    ELSE ExtractUnitsPass(ExtractMeasurements(params, s, FindUnits(s, units_patterns[k].unit, 1),
                                              units_patterns[k].factor10),
                          s, k + 1)

\* DefaultOf with the boolean test made case-sensitive
Mut_DefaultOf_CaseSensitive(params, name, info) ==
    IF info.default = "" THEN params
    ELSE IF info.type = "number"
         THEN (IF FloatParses(info.default)
               THEN DictSet(params, name, FloatV(FloatOf(info.default)))
               ELSE params)
    ELSE IF info.type = "boolean"
         THEN DictSet(params, name, BoolV(info.default = "true"))
    ELSE DictSet(params, name, StrV(info.default))

\* one needed parameter of the "use defaults" branch
DefaultOf(params, name, info) ==
    IF info.default = "" THEN params
    ELSE IF info.type = "number"
         THEN (IF FloatParses(info.default)
               THEN DictSet(params, name, FloatV(FloatOf(info.default)))
               ELSE params)
    ELSE IF info.type = "boolean"
         THEN DictSet(params, name, BoolV(Lower(info.default) = "true"))
    ELSE DictSet(params, name, StrV(info.default))

RECURSIVE UseDefaults(_, _)
\* for param_name, param_info in needed_params.items()
UseDefaults(params, needed) ==
    IF needed = <<>> THEN params
    ELSE UseDefaults(DefaultOf(params, Head(needed).k, Head(needed).v), Tail(needed))

extract_parameters_from_message(message, needed_params) ==
    LET message_lower == Lower(message)
    IN  IF Contains(message_lower, "use default") \/ Contains(message_lower, "default")
        THEN UseDefaults(EmptyDict, needed_params)
        ELSE ExtractUnitsPass(PatternPasses(EmptyDict, message_lower, needed_params),
                              message_lower, 1)

(***************************************************************************)
(* LLMService._get_fallback_parameters                                     *)
(***************************************************************************)

NumberSpec(default) == [default |-> default, type |-> "number"]

get_fallback_parameters(model_type) ==
    IF model_type = "cube" \/ model_type = "box"
    THEN << [k |-> "width", v |-> NumberSpec("10")],
            [k |-> "height", v |-> NumberSpec("10")],
            [k |-> "depth", v |-> NumberSpec("10")] >>
    ELSE IF model_type = "sphere" \/ model_type = "ball"
    THEN << [k |-> "radius", v |-> NumberSpec("10")] >>
    ELSE IF model_type = "cylinder" \/ model_type = "tube"
    THEN << [k |-> "radius", v |-> NumberSpec("5")],
            [k |-> "height", v |-> NumberSpec("20")] >>
    ELSE IF model_type = "cone"
    THEN << [k |-> "radius1", v |-> NumberSpec("10")],
            [k |-> "radius2", v |-> NumberSpec("0")],
            [k |-> "height", v |-> NumberSpec("20")] >>
    ELSE << [k |-> "size", v |-> NumberSpec("10")] >>

(***************************************************************************)
(* Parameter substitution: LLMService._apply_parameters                    *)
(***************************************************************************)

\* chr(n) for 64 <= n <= 127; chr(96) and chr(127) cannot be written in a
\* string here and are named instead
Chr64To95 == "@ABCDEFGHIJKLMNOPQRSTUVWXYZ[\\]^_"
Chr97To126 == "abcdefghijklmnopqrstuvwxyz{|}~"
Chr(n) ==
    IF n <= 95 THEN At(Chr64To95, n - 63)
    ELSE IF n = 96 THEN "<GRAVE>"
    ELSE IF n <= 126 THEN At(Chr97To126, n - 96)
    ELSE "<DEL>"

\* How re parses the replacement template "\1" + v + "\3" (v without a
\* backslash): after the backslash and the digit 1, a following digit joins
\* the escape. Three octal digits are a character escape; otherwise the two
\* digits are a group number, and the pattern has only three groups.
\*   "group"  : \1 is the first group, v follows literally
\*   "octal"  : \1 and two digits of v are one character, the rest follows
\*   "error"  : re.error, invalid group reference
TemplateKind(v) ==
    IF ~IsDigit(At(v, 1)) THEN "group"
    ELSE IF IsOctDigit(At(v, 1)) /\ IsOctDigit(At(v, 2)) THEN "octal"
    ELSE "error"

\* the expansion of the template for a match with groups g1 and g3
ExpandTemplate(v, g1, g3) ==
    IF TemplateKind(v) = "group" THEN g1 \o v \o g3
    ELSE Chr(64 + 8 * DigitVal(At(v, 1)) + DigitVal(At(v, 2))) \o SubSeq(v, 3, Len(v)) \o g3

NoAssign == [ok |-> FALSE, g1 |-> "", end |-> 0]

\* (<name>\s*=\s*)([^;]+)(;) at i: the first group and the end of the match.
\* The blanks after "=" belong to the first group, except that the value
\* keeps one character when nothing else stands before the semicolon.
AssignmentAt(s, i, name) ==
    IF ~StartsAt(s, i, name) THEN NoAssign
    ELSE LET b    == SkipSpaces(s, i + Len(name))
             semi == IndexOf(s, ";", b + 1)
             d    == SkipSpaces(s, b + 1)
         IN  IF At(s, b) # "=" \/ semi = 0 \/ semi = b + 1 THEN NoAssign
             ELSE [ok |-> TRUE,
                   g1 |-> SubSeq(s, i, (IF d = semi THEN d - 1 ELSE d) - 1),
                   end |-> semi + 1]

RECURSIVE SubAssignments(_, _, _, _)
\* re.sub(pattern, replacement, code): every match from the left, none
\* overlapping, replaced by the expanded template
SubAssignments(s, i, name, v) ==
    IF i > Len(s) THEN ""
    ELSE LET m == AssignmentAt(s, i, name)
         IN  IF m.ok THEN ExpandTemplate(v, m.g1, ";") \o SubAssignments(s, m.end, name, v)
             ELSE At(s, i) \o SubAssignments(s, i + 1, name, v)

Raised == [raised |-> TRUE, code |-> ""]
Returned(code) == [raised |-> FALSE, code |-> code]

RECURSIVE apply_parameters(_, _)
\* for param_name, param_value in parameters.items(): re.sub(...); the
\* template is compiled before the search, so a bad one raises on any code
apply_parameters(code, parameters) ==
    IF parameters = <<>> THEN Returned(code)
    ELSE LET v == PyStr(Head(parameters).v)
         IN  IF TemplateKind(v) = "error" THEN Raised
             ELSE apply_parameters(SubAssignments(code, 1, Head(parameters).k, v),
                                   Tail(parameters))

(***************************************************************************)
(* Static parameter extraction: WebCrawler._extract_parameters             *)
(***************************************************************************)

RECURSIVE SkipWord(_, _)
\* the end of a greedy \w* begun at i
SkipWord(s, i) == IF IsWord(At(s, i)) THEN SkipWord(s, i + 1) ELSE i

NoVar == [ok |-> FALSE, name |-> "", value |-> "", end |-> 0]

\* (\w+)\s*=\s*([^;]+); at i: the name, the value before .strip(), the end
VarAt(s, i) ==
    IF ~IsWord(At(s, i)) THEN NoVar
    ELSE LET e    == SkipWord(s, i)
             b    == SkipSpaces(s, e)
             semi == IndexOf(s, ";", b + 1)
             d    == SkipSpaces(s, b + 1)
         IN  IF At(s, b) # "=" \/ semi = 0 \/ semi = b + 1 THEN NoVar
             ELSE [ok |-> TRUE, name |-> SubSeq(s, i, e - 1),
                   value |-> SubSeq(s, IF d = semi THEN d - 1 ELSE d, semi - 1),
                   end |-> semi + 1]

reserved_names == {"i", "j", "x", "y", "z", "temp", "tmp", "result"}

\* the type inferred from a default value
ParamTypeOf(param_value) ==
    IF Lower(param_value) \in {"true", "false"} THEN "boolean"
    ELSE IF StartsAt(param_value, 1, "\"") \/ StartsAt(param_value, 1, "'") THEN "string"
    ELSE IF Contains(param_value, "[") THEN "array"
    ELSE "number"

\* the body of the assignment loop: reserved names are skipped
VarEntry(parameters, param_name, raw_value) ==
    IF param_name \in reserved_names THEN parameters
    ELSE DictSet(parameters, param_name,
                 [default |-> Strip(raw_value), type |-> ParamTypeOf(Strip(raw_value))])

RECURSIVE SkipSpacesBack(_, _)
\* the last position up to i that holds no whitespace
SkipSpacesBack(s, i) == IF IsSpace(At(s, i)) THEN SkipSpacesBack(s, i - 1) ELSE i

RECURSIVE SkipWordBack(_, _, _)
\* the first position of the run of word characters that ends at e, not
\* before i
SkipWordBack(s, e, i) == IF e >= i /\ IsWord(At(s, e)) THEN SkipWordBack(s, e - 1, i) ELSE e + 1

\* where a match of var_pattern can begin at or after i: at the word in
\* front of an "=" (the positions inside the word match only if its first
\* one does)
VarStarts(s, i) ==
    { SkipWordBack(s, SkipSpacesBack(s, b - 1), i) :
        b \in {b \in i..Len(s) : At(s, b) = "="} }

RECURSIVE VarPass(_, _, _)
\* for match in re.finditer(var_pattern, code)
VarPass(parameters, s, i) ==
    LET hits == {j \in VarStarts(s, i) : VarAt(s, j).ok}
    IN  IF hits = {} THEN parameters
        ELSE LET m == VarAt(s, MinOf(hits))
             IN  VarPass(VarEntry(parameters, m.name, m.value), s, m.end)

NoModule == [ok |-> FALSE, args |-> "", end |-> 0]

\* module\s+\w+\s*\((.*?)\) at i (DOTALL): the text up to the first ")"
ModuleAt(s, i) ==
    IF ~StartsAt(s, i, "module") THEN NoModule
    ELSE LET a     == i + 6
             b     == SkipSpaces(s, a)
             e     == SkipWord(s, b)
             f     == SkipSpaces(s, e)
             close == IndexOf(s, ")", f + 1)
         IN  IF b = a \/ e = b \/ At(s, f) # "(" \/ close = 0 THEN NoModule
             ELSE [ok |-> TRUE, args |-> SubSeq(s, f + 1, close - 1), end |-> close + 1]

RECURSIVE SplitArgs(_, _, _, _)
\* the split of the argument text at commas outside () and []: the items,
\* each stripped; a last item is kept unless it is the empty string
SplitArgs(s, i, current_item, parenthesis_level) ==
    IF i > Len(s)
    THEN (IF current_item # "" THEN <<Strip(current_item)>> ELSE <<>>)
    ELSE LET char == At(s, i)
         IN  IF char = "(" \/ char = "["
             THEN SplitArgs(s, i + 1, current_item \o char, parenthesis_level + 1)
             ELSE IF char = ")" \/ char = "]"
             THEN SplitArgs(s, i + 1, current_item \o char, parenthesis_level - 1)
             ELSE IF char = "," /\ parenthesis_level = 0
             THEN <<Strip(current_item)>> \o SplitArgs(s, i + 1, "", 0)
             ELSE SplitArgs(s, i + 1, current_item \o char, parenthesis_level)

\* one argument of a module signature: param.split('=', 1)
ArgEntry(parameters, param) ==
    LET eq         == IndexOf(param, "=", 1)
        param_name == Strip(IF eq = 0 THEN param ELSE SubSeq(param, 1, eq - 1))
        param_value == Strip(SubSeq(param, eq + 1, Len(param)))
    IN  IF param_name = "" THEN parameters
        ELSE IF eq # 0
        THEN DictSet(parameters, param_name,
                     [default |-> param_value, type |-> ParamTypeOf(param_value)])
        ELSE DictSet(parameters, param_name, [default |-> "", type |-> "unknown"])

RECURSIVE ArgEntries(_, _)
ArgEntries(parameters, param_items) ==
    IF param_items = <<>> THEN parameters
    ELSE ArgEntries(ArgEntry(parameters, Head(param_items)), Tail(param_items))

RECURSIVE ModulePass(_, _, _)
\* for match in re.finditer(module_pattern, code, re.DOTALL)
ModulePass(parameters, s, i) ==
    LET hits == {j \in i..Len(s) : ModuleAt(s, j).ok}
    IN  IF hits = {} THEN parameters
        ELSE LET m == ModuleAt(s, MinOf(hits))
             IN  IF Strip(m.args) = "" THEN ModulePass(parameters, s, m.end)
                 ELSE ModulePass(ArgEntries(parameters, SplitArgs(Strip(m.args), 1, "", 0)),
                                 s, m.end)

extract_parameters(code) == ModulePass(VarPass(EmptyDict, code, 1), code, 1)

(***************************************************************************)
(* The template catalogue: WebCrawler.search_for_template                  *)
(***************************************************************************)

openscad_keywords == {"module", "function", "cube", "sphere", "cylinder",
                      "polyhedron", "union", "difference", "intersection"}

\* word\s+\w+\s*\( at i
DeclarationAt(s, i, word) ==
    /\ StartsAt(s, i, word)
    /\ LET a == i + Len(word)
           b == SkipSpaces(s, a)
           e == SkipWord(s, b)
       IN  b > a /\ e > b /\ At(s, SkipSpaces(s, e)) = "("

\* word\s*\(\s*\[ at i
ArrayCallAt(s, i, word) ==
    /\ StartsAt(s, i, word)
    /\ LET b == SkipSpaces(s, i + Len(word))
       IN  At(s, b) = "(" /\ At(s, SkipSpaces(s, b + 1)) = "["

\* word\s*\(\s*name\s*= at i
NamedCallAt(s, i, word, name) ==
    /\ StartsAt(s, i, word)
    /\ LET b == SkipSpaces(s, i + Len(word))
           c == SkipSpaces(s, b + 1)
       IN  At(s, b) = "(" /\ StartsAt(s, c, name)
           /\ At(s, SkipSpaces(s, c + Len(name))) = "="

is_openscad_code(text) ==
    LET text_lower    == Lower(text)
        keyword_count == Cardinality({k \in openscad_keywords : Contains(text_lower, k)})
        has_syntax    == \E i \in 1..Len(text) :
                            \/ DeclarationAt(text, i, "module")
                            \/ DeclarationAt(text, i, "function")
                            \/ ArrayCallAt(text, i, "cube")
                            \/ NamedCallAt(text, i, "sphere", "r")
                            \/ NamedCallAt(text, i, "cylinder", "h")
    IN  keyword_count >= 2 \/ has_syntax

RECURSIVE SkipNonSpaces(_, _)
SkipNonSpaces(s, i) ==
    IF i <= Len(s) /\ ~IsSpace(At(s, i)) THEN SkipNonSpaces(s, i + 1) ELSE i

RECURSIVE SplitWords(_, _)
\* str.split(): the maximal runs of non-whitespace from position i on
SplitWords(s, i) ==
    LET b == SkipSpaces(s, i)
        e == SkipNonSpaces(s, b)
    IN  IF b > Len(s) THEN <<>> ELSE <<SubSeq(s, b, e - 1)>> \o SplitWords(s, e)

code_matches_query(code, query) ==
    LET keywords   == SplitWords(Lower(query), 1)
        code_lower == Lower(code)
        matches    == {i \in 1..Len(keywords) : Contains(code_lower, keywords[i])}
    IN  2 * Cardinality(matches) >= Len(keywords)

RECURSIVE FirstBlock(_, _)
\* _extract_code_from_page on a fetched page: the first block that is
\* OpenSCAD code and matches the query, stripped; "" when there is none
FirstBlock(blocks, query) ==
    IF blocks = <<>> THEN ""
    ELSE IF is_openscad_code(Head(blocks)) /\ code_matches_query(Head(blocks), query)
    THEN Strip(Head(blocks))
    ELSE FirstBlock(Tail(blocks), query)

NoTemplate == [code |-> "", source |-> "", parameters |-> <<>>, model_id |-> 0]

RECURSIVE FirstPage(_, _)
\* the loops over the search results and the template sites: the pages in
\* the order they are fetched, up to the first that yields code
FirstPage(pages, query) ==
    IF pages = <<>> THEN NoTemplate
    ELSE LET code == FirstBlock(Head(pages).blocks, query)
         IN  IF code # ""
             THEN [code |-> code, source |-> Head(pages).url,
                   parameters |-> extract_parameters(code), model_id |-> 0]
             ELSE FirstPage(Tail(pages), query)

CacheKey(query) == Strip(Lower(query))

\* search_for_template(query) on the cache, with what the web serves during
\* the call: the template returned, the cache afterwards and whether the
\* search pipeline ran
search_for_template(cache, query, web) ==
    LET cache_key == CacheKey(query)
    IN  IF DictHas(cache, cache_key)
        THEN [template |-> DictGet(cache, cache_key), cache |-> cache, ran |-> FALSE]
        ELSE LET found == IF web.raises THEN NoTemplate ELSE FirstPage(web.pages, query)
             IN  [template |-> found,
                  cache |-> IF found.code # "" THEN DictSet(cache, cache_key, found)
                            ELSE cache,
                  ran |-> TRUE]

(***************************************************************************)
(* Pure-function harness                                                   *)
(***************************************************************************)

\* Messages put to the classifier: a lead-in, a verb phrase and an object
\* phrase, in several casings, with and without vocabulary terms.
ClassifyLeads == {"", "Please ", "could you "}
ClassifyVerbs == {"generate", "CREATE", "Make", "bUiLd", "3D Print", "OpenSCAD",
                  "draw", "render", "show", "remodel", ""}
ClassifyNouns == {"cube", "a Box for me", "SPHERE", "boxer", "report", "a Gear",
                  "apartment", "staircase", "nothing", "table", ""}
ClassifyInputs ==
    { l \o v \o " " \o n : l \in ClassifyLeads, v \in ClassifyVerbs, n \in ClassifyNouns }
    \cup {"Please generate a cube for me", "generate a report"}

InitClassify ==
    /\ fn = "is_model_request"
    /\ arg \in ClassifyInputs
    /\ ret = NoRet
    /\ Constructed
    /\ PlatformIdle
    /\ pc = "ready"

CallClassify ==
    /\ fn = "is_model_request" /\ pc = "ready"
    /\ ret' = is_model_request(arg)
    /\ pc' = "done"
    /\ UNCHANGED <<fn, arg, service, platform>>

NextClassify == CallClassify

SpecClassify == InitClassify /\ [][NextClassify]_vars

(***************************************************************************)
(* Harness of parse_request and extract                                    *)
(***************************************************************************)

\* a dimension as written, and the parameter it is stored under
MeasureDims == { [word |-> "width", name |-> "width", halve |-> FALSE],
                 [word |-> "height", name |-> "height", halve |-> FALSE],
                 [word |-> "depth", name |-> "depth", halve |-> FALSE],
                 [word |-> "radius", name |-> "radius", halve |-> FALSE],
                 [word |-> "diameter", name |-> "radius", halve |-> TRUE] }
\* a number as written, and its value in thousandths
MeasureNumbers == { [text |-> "10", milli |-> 10000], [text |-> "2", milli |-> 2000],
                    [text |-> "2.5", milli |-> 2500] }
\* a unit suffix, and the factor the specification gives it, in tenths
MeasureUnits == { [unit |-> "mm", factor10 |-> 10], [unit |-> "cm", factor10 |-> 100],
                  [unit |-> "m", factor10 |-> 10000], [unit |-> "in", factor10 |-> 254] }
MeasureGaps == {" ", ""}

\* "<dimension> <number><gap><unit>", alone (extract) or in a request (parse)
MeasureInputs(lead) ==
    { [kind |-> "measure", message |-> lead \o d.word \o " " \o n.text \o g \o u.unit,
       needed |-> << [k |-> d.name, v |-> NumberSpec("10")] >>,
       dim |-> d, num |-> n, unit |-> u] :
      d \in MeasureDims, n \in MeasureNumbers, u \in MeasureUnits, g \in MeasureGaps }

\* the specs a needed parameter may carry
MaxNeeded == 2
DefaultSpecs == { NumberSpec("10"), NumberSpec("2.5"), NumberSpec("-5"), NumberSpec("w/2"),
                  NumberSpec(""),
                  [default |-> "", type |-> "unknown"],
                  [default |-> "TRUE", type |-> "boolean"],
                  [default |-> "false", type |-> "boolean"],
                  [default |-> "[1,2]", type |-> "array"],
                  [default |-> "\"abc\"", type |-> "string"] }
NeededNames == <<"radius", "center", "label", "sides">>
NeededMaps ==
    UNION { { [i \in 1..n |-> [k |-> NeededNames[i], v |-> f[i]]] : f \in [1..n -> DefaultSpecs] } :
            n \in 1..MaxNeeded }
DefaultsMessages == {"use defaults", "Just use default values"}
DefaultsInputs ==
    { [kind |-> "defaults", message |-> m, needed |-> nd,
       dim |-> "", num |-> "", unit |-> ""] : m \in DefaultsMessages, nd \in NeededMaps }

\* slot-filling replies in the phrasings of the three patterns
SlotMessages == {"width is 10", "the height should be 20", "depth = 30",
                 "set the width to 12", "make height = 7", "make theheight to 7",
                 "width: 5", "depth:5.5", "width is 10 and height is 20 and depth is 30",
                 "height 20", "mywidth is 3", "width is ten", "hello"}
SlotInputs ==
    { [kind |-> "slot", message |-> m, needed |-> get_fallback_parameters("cube"),
       dim |-> "", num |-> "", unit |-> ""] : m \in SlotMessages }

\* the radii of a cone as written, and the parameter each is stored under
ConeDims == { [word |-> "radius1", name |-> "radius1", halve |-> FALSE],
              [word |-> "base radius", name |-> "radius1", halve |-> FALSE],
              [word |-> "radius2", name |-> "radius2", halve |-> FALSE],
              [word |-> "top radius", name |-> "radius2", halve |-> FALSE] }
\* "<radius> <number><gap><unit>" in reply to the prompt for a cone
ConeInputs ==
    { [kind |-> "cone", message |-> d.word \o " " \o n.text \o g \o u.unit,
       needed |-> get_fallback_parameters("cone"),
       dim |-> d, num |-> n, unit |-> u] :
      d \in ConeDims, n \in MeasureNumbers, u \in MeasureUnits, g \in MeasureGaps }

InitExtract ==
    /\ \/ fn = "extract"
          /\ arg \in MeasureInputs("") \cup DefaultsInputs \cup SlotInputs \cup ConeInputs
       \/ fn = "parse_request" /\ arg \in MeasureInputs("make a cube with ")
    /\ ret = NoRet
    /\ Constructed
    /\ PlatformIdle
    /\ pc = "ready"

CallExtract ==
    /\ fn = "extract" /\ pc = "ready"
    /\ ret' = extract_parameters_from_message(arg.message, arg.needed)
    /\ pc' = "done"
    /\ UNCHANGED <<fn, arg, service, platform>>

CallParse ==
    /\ fn = "parse_request" /\ pc = "ready"
    /\ ret' = parse_model_request(arg.message).parameters
    /\ pc' = "done"
    /\ UNCHANGED <<fn, arg, service, platform>>

NextExtract == CallExtract \/ CallParse

SpecExtract == InitExtract /\ [][NextExtract]_vars

(***************************************************************************)
(* Harness of the parameter substitution                                   *)
(***************************************************************************)

MaxStatements == 2
MaxApplyParams == 2
StatementNames == {"width", "height", "mywidth"}
StatementValues == {"10", "3"}
Statements == [name : StatementNames, value : StatementValues]
StatementLists == UNION { [1..n -> Statements] : n \in 1..MaxStatements }

RECURSIVE Render(_)
\* the source text of a list of assignments, one "name = value;" a line
Render(stmts) ==
    IF stmts = <<>> THEN ""
    ELSE Head(stmts).name \o " = " \o Head(stmts).value \o ";"
         \o (IF Len(stmts) > 1 THEN "\n" ELSE "") \o Render(Tail(stmts))

ApplyNames == <<"width", "height">>
ApplyValues == { IntV(7), IntV(-7), FloatV(7000), FloatV(10000), FloatV(-2500),
                 StrV("w0"), BoolV(TRUE) }
ApplyMaps ==
    UNION { { [i \in 1..n |-> [k |-> ApplyNames[i], v |-> f[i]]] : f \in [1..n -> ApplyValues] } :
            n \in 1..MaxApplyParams }
ApplyInputs ==
    { [stmts |-> st, code |-> Render(st), parameters |-> pm] :
      st \in StatementLists, pm \in ApplyMaps }

InitApply ==
    /\ fn = "apply_parameters"
    /\ arg \in ApplyInputs
    /\ ret = NoRet
    /\ Constructed
    /\ PlatformIdle
    /\ pc = "ready"

CallApply ==
    /\ fn = "apply_parameters" /\ pc = "ready"
    /\ ret' = apply_parameters(arg.code, arg.parameters)
    /\ pc' = "done"
    /\ UNCHANGED <<fn, arg, service, platform>>

NextApply == CallApply

SpecApply == InitApply /\ [][NextApply]_vars

(***************************************************************************)
(* Harness of the static parameter extraction                              *)
(***************************************************************************)

ParamsAssignments == {"", "x = 5; ", "i = 0;\n", "temp = width/2; ", "result=[1,2];",
                      "tmp = 1; j = 2; ", "X = 5; "}
ParamsTails == {"width = 10;", "width = 10;\nheight = 2.5;", "center = true;",
                "label = \"abc\"; size = [1, 2];"}
ParamsModules == {"", "\nmodule foo() { cube(1); }", "\nmodule foo(x, y) { cube([x, y, 1]); }",
                  "\nmodule bar(w=10, z=[1,2], temp) {}", "\nmodule baz (size = f(1, 2), i) {}",
                  "\nmodule custom_cube(w, h, d) {\n    cube([w, h, d]);\n}"}
ParamsInputs ==
    { a \o t \o m : a \in ParamsAssignments, t \in ParamsTails, m \in ParamsModules }
    \cup {"x = 5; width = 10;"}

InitParams ==
    /\ fn = "extract_parameters"
    /\ arg \in ParamsInputs
    /\ ret = NoRet
    /\ Constructed
    /\ PlatformIdle
    /\ pc = "ready"

CallParams ==
    /\ fn = "extract_parameters" /\ pc = "ready"
    /\ ret' = extract_parameters(arg)
    /\ pc' = "done"
    /\ UNCHANGED <<fn, arg, service, platform>>

NextParams == CallParams

SpecParams == InitParams /\ [][NextParams]_vars

(***************************************************************************)
(* The code synthesizer: LLMService.generate_code and its helpers          *)
(***************************************************************************)

\* _generate_text: the stripped output of the backend, "" when it raises
generate_text(llm) == IF llm.raises THEN "" ELSE Strip(llm.text)

\* the Markdown fence of three grave accents, a character the string syntax
\* of this module cannot hold: three apostrophes stand for it
Fence == "'''"

NoBlock == [ok |-> FALSE, block |-> "", end |-> 0]

\* ```(?:openscad)?(.*?)``` at i (DOTALL)
FencedAt(text, i) ==
    IF ~StartsAt(text, i, Fence) THEN NoBlock
    ELSE LET a     == i + Len(Fence)
             b     == IF StartsAt(text, a, "openscad") THEN a + 8 ELSE a
             close == IndexOf(text, Fence, b)
         IN  IF close = 0 THEN NoBlock
             ELSE [ok |-> TRUE, block |-> SubSeq(text, b, close - 1),
                   end |-> close + Len(Fence)]

RECURSIVE CodeBlocks(_, _)
\* re.findall(code_block_pattern, text, re.DOTALL) from position i on
CodeBlocks(text, i) ==
    LET hits == {j \in i..Len(text) : FencedAt(text, j).ok}
    IN  IF hits = {} THEN <<>>
        ELSE LET m == FencedAt(text, MinOf(hits))
             IN  <<m.block>> \o CodeBlocks(text, m.end)

RECURSIVE JoinStripped(_)
\* "\n\n".join(block.strip() for block in code_blocks)
JoinStripped(blocks) ==
    IF Len(blocks) = 1 THEN Strip(Head(blocks))
    ELSE Strip(Head(blocks)) \o "\n\n" \o JoinStripped(Tail(blocks))

RECURSIVE SplitLines(_, _)
\* text.split("\n") from position i on
SplitLines(text, i) ==
    LET nl == IndexOf(text, "\n", i)
    IN  IF nl = 0 THEN <<SubSeq(text, i, Len(text))>>
        ELSE <<SubSeq(text, i, nl - 1)>> \o SplitLines(text, nl + 1)

narrative_openers == {"Here's", "This", "The", "I've", "I'll", "I", "As you", "Now", "Note:"}

LooksLikeCode(line) == \E c \in {"(", ")", "{", "}", "=", "//"} : Contains(line, c)

RECURSIVE CodeLines(_, _)
\* the line filter: the lines kept, given whether code mode is entered
CodeLines(lines, in_code) ==
    IF lines = <<>> THEN <<>>
    ELSE LET line == Head(lines)
         IN  IF \E o \in narrative_openers : StartsAt(line, 1, o)
             THEN CodeLines(Tail(lines), in_code)
             ELSE IF LooksLikeCode(line) THEN <<line>> \o CodeLines(Tail(lines), TRUE)
             ELSE IF in_code /\ Strip(line) # ""
             THEN <<line>> \o CodeLines(Tail(lines), in_code)
             ELSE CodeLines(Tail(lines), in_code)

RECURSIVE JoinLines(_)
JoinLines(lines) ==
    IF lines = <<>> THEN ""
    ELSE IF Len(lines) = 1 THEN Head(lines)
    ELSE Head(lines) \o "\n" \o JoinLines(Tail(lines))

extract_code(text) ==
    LET code_blocks == CodeBlocks(text, 1)
    IN  IF code_blocks # <<>> THEN JoinStripped(code_blocks)
        ELSE Strip(JoinLines(CodeLines(SplitLines(text, 1), FALSE)))

FallbackCube(width, height, depth) ==
    "\n// Customizable Cube\n// Generated by 3D Model Generator\n\n// Parameters\nwidth = "
    \o PyStr(width)
    \o ";  // Width of the cube\nheight = "
    \o PyStr(height)
    \o ";  // Height of the cube\ndepth = "
    \o PyStr(depth)
    \o ";  // Depth of the cube\n\n// Main module\nmodule custom_cube(w, h, d) {\n    cube([w, h, d]);\n}\n\n// Generate the cube\ncustom_cube(width, height, depth);\n"

FallbackSphere(radius) ==
    "\n// Customizable Sphere\n// Generated by 3D Model Generator\n\n// Parameters\nradius = "
    \o PyStr(radius)
    \o ";  // Radius of the sphere\n\n// Main module\nmodule custom_sphere(r) {\n    sphere(r=r);\n}\n\n// Generate the sphere\ncustom_sphere(radius);\n"

FallbackCylinder(height, radius) ==
    "\n// Customizable Cylinder\n// Generated by 3D Model Generator\n\n// Parameters\nheight = "
    \o PyStr(height)
    \o ";  // Height of the cylinder\nradius = "
    \o PyStr(radius)
    \o ";  // Radius of the cylinder\n\n// Main module\nmodule custom_cylinder(h, r) {\n    cylinder(h=h, r=r);\n}\n\n// Generate the cylinder\ncustom_cylinder(height, radius);\n"

FallbackCone(height, radius1, radius2) ==
    "\n// Customizable Cone\n// Generated by 3D Model Generator\n\n// Parameters\nheight = "
    \o PyStr(height)
    \o ";  // Height of the cone\nradius1 = "
    \o PyStr(radius1)
    \o ";  // Radius of the base\nradius2 = "
    \o PyStr(radius2)
    \o ";  // Radius of the top (0 for a pointed cone)\n\n// Main module\nmodule custom_cone(h, r1, r2) {\n    cylinder(h=h, r1=r1, r2=r2);\n}\n\n// Generate the cone\ncustom_cone(height, radius1, radius2);\n"

FallbackDefault(size) ==
    "\n// Default 3D Model\n// Generated by 3D Model Generator\n\n// Parameters\nsize = "
    \o PyStr(size)
    \o ";  // Size of the object\n\n// Main module\nmodule default_object(size) {\n    cube(size);\n}\n\n// Generate the object\ndefault_object(size);\n"

\* _fallback_generation that knows the cube only and ignores the values
Mut_fallback_generation_CubeOnly(prompt, parameters) ==
    FallbackCube(IntV(10), IntV(10), IntV(10))

fallback_generation(prompt, parameters) ==
    LET p == Lower(prompt)
    IN  IF Contains(p, "cube") \/ Contains(p, "box")
        THEN FallbackCube(DictGetOr(parameters, "width", IntV(10)),
                          DictGetOr(parameters, "height", IntV(10)),
                          DictGetOr(parameters, "depth", IntV(10)))
        ELSE IF Contains(p, "sphere") \/ Contains(p, "ball")
        THEN FallbackSphere(DictGetOr(parameters, "radius", IntV(10)))
        ELSE IF Contains(p, "cylinder") \/ Contains(p, "tube")
        THEN FallbackCylinder(DictGetOr(parameters, "height", IntV(20)),
                              DictGetOr(parameters, "radius", IntV(5)))
        ELSE IF Contains(p, "cone")
        THEN FallbackCone(DictGetOr(parameters, "height", IntV(20)),
                          DictGetOr(parameters, "radius1", IntV(10)),
                          DictGetOr(parameters, "radius2", IntV(0)))
        ELSE FallbackDefault(DictGetOr(parameters, "size", IntV(10)))

FallbackResult(prompt, parameters, source) ==
    LET fallback_code == fallback_generation(prompt, parameters)
    IN  [code |-> fallback_code, source |-> source,
         parameters |-> extract_parameters(fallback_code), model_id |-> 0]

Completed(result, aliased, asked) ==
    [raised |-> FALSE, result |-> result, aliased |-> aliased, asked |-> asked]
Failed(asked) ==
    [raised |-> TRUE, result |-> NoTemplate, aliased |-> FALSE, asked |-> asked]

\* the try block of generate_code up to the save, given the template the
\* lookup returned: the result built, whether it is the template object
\* itself, whether the backend was asked, or the exception raised
SynthesisBody(template, loaded, prompt, parameters, llm) ==
    IF template.code # ""
    THEN IF parameters # EmptyDict
         THEN LET applied == apply_parameters(template.code, parameters)
              IN  IF applied.raised THEN Failed(FALSE)
                  ELSE Completed([code |-> applied.code, source |-> template.source,
                                  parameters |-> template.parameters, model_id |-> 0],
                                 FALSE, FALSE)
         ELSE Completed(template, TRUE, FALSE)
    ELSE IF ~loaded
    THEN Completed(FallbackResult(prompt, parameters, "Generated by fallback system"),
                   FALSE, FALSE)
    ELSE LET code == extract_code(generate_text(llm))
         IN  IF Strip(code) # ""
             THEN LET applied == IF parameters # EmptyDict
                                 THEN apply_parameters(code, parameters)
                                 ELSE Returned(code)
                  IN  IF applied.raised THEN Failed(TRUE)
                      ELSE Completed([code |-> applied.code,
                                      source |-> "Generated by Mistral",
                                      parameters |-> extract_parameters(applied.code),
                                      model_id |-> 0], FALSE, TRUE)
             ELSE Completed(FallbackResult(prompt, parameters,
                                           "Generated by fallback system"), FALSE, TRUE)

\* the save and the return of generate_code, given what the lookup (found),
\* the try block (body) and the exception handler (failure) produced
SaveAndReturn(found, body, failure, next_id, prompt, user_id, save_ok) ==
    LET save_called == ~body.raised /\ user_id # "" /\ body.result.code # ""
        saved       == save_called /\ save_ok
        result      == IF body.raised THEN failure
                       ELSE IF saved THEN [body.result EXCEPT !.model_id = next_id]
                       ELSE body.result
    IN  [raised |-> FALSE, result |-> result,
         cache |-> IF saved /\ body.aliased
                   THEN DictSet(found.cache, CacheKey(prompt), result)
                   ELSE found.cache,
         ran |-> found.ran, asked |-> body.asked, handled |-> body.raised,
         save_called |-> save_called, saved |-> saved]

\* the exception leaves generate_code instead of being handled
Mut_Propagate(found, body) ==
    [raised |-> body.raised, result |-> body.result, cache |-> found.cache,
     ran |-> found.ran, asked |-> body.asked, handled |-> FALSE,
     save_called |-> FALSE, saved |-> FALSE]

\* generate_code after its lookup
GenerateFrom(found, loaded, next_id, prompt, parameters, user_id, llm, save_ok) ==
    SaveAndReturn(found,
                  SynthesisBody(found.template, loaded, prompt, parameters, llm),
                  FallbackResult(prompt, parameters,
                                 "Generated by fallback system due to error"),
                  next_id, prompt, user_id, save_ok)

\* generate_code without its exception handler
Mut_generate_code_NoHandler(cache, loaded, next_id, prompt, parameters, user_id, web, llm, save_ok) ==
    Mut_Propagate(search_for_template(cache, prompt, web),
              SynthesisBody(search_for_template(cache, prompt, web).template,
                            loaded, prompt, parameters, llm))

\* generate_code(prompt, parameters, user_id) on the cache and the backend
\* state, with what the web, the backend and the model store do during the
\* call; next_id is the id of the file a successful save writes
generate_code(cache, loaded, next_id, prompt, parameters, user_id, web, llm, save_ok) ==
    GenerateFrom(search_for_template(cache, prompt, web), loaded, next_id,
                 prompt, parameters, user_id, llm, save_ok)

(***************************************************************************)
(* The environment of the service: what the web serves during one run of   *)
(* the search pipeline                                                     *)
(***************************************************************************)

ExamplesUrl == "https://www.openscad.org/examples.html"
MCADUrl == "https://github.com/openscad/MCAD"

CubeBlock == "  width = 1;\nheight = 2;\ndepth = 3;\ncube([width, height, depth]);\n"
SphereBlock == "sphere(r = 4);"
PyramidBlock == "module pyramid() { polyhedron(p, f); }"

\* the pages offer a block for some of the queries
RichWeb ==
    [raises |-> FALSE,
     pages |-> << [url |-> ExamplesUrl, blocks |-> << "echo(\"cube\");", SphereBlock >>],
                  [url |-> MCADUrl, blocks |-> << CubeBlock, PyramidBlock >>] >>]

\* the pipeline raises; no page offers matching code; the pages offer code
WebOutcomes ==
    { [raises |-> TRUE, pages |-> <<>>],
      [raises |-> FALSE,
       pages |-> << [url |-> ExamplesUrl, blocks |-> << "echo(\"cube\");" >>] >>],
      RichWeb }

\* what the text-completion backend does when asked: it raises, or returns
\* fenced code, code between narrative lines, or no code at all
LlmOutcomes ==
    { [raises |-> TRUE, text |-> ""],
      [raises |-> FALSE,
       text |-> "ASSISTANT: Sure!\n'''openscad\nwidth = 4;\ncube(width);\n'''\n"],
      [raises |-> FALSE, text |-> "Here's a ball\nsphere(r=3); // ball\nenjoy\n"],
      [raises |-> FALSE, text |-> " Happy to help. "] }

\* a part of the environment the call did not consult
Unused == [unused |-> TRUE]

\* the outcomes to consider for a lookup, a synthesis and a save: those of
\* the parts the call consults
WebsFor(cache, query) == IF DictHas(cache, CacheKey(query)) THEN {Unused} ELSE WebOutcomes
LlmsFor(template, loaded) == IF template.code = "" /\ loaded THEN LlmOutcomes ELSE {Unused}
SavesFor(user_id) == IF user_id = "" THEN {FALSE} ELSE BOOLEAN

(***************************************************************************)
(* Harness of the template catalogue: a sequence of lookups                *)
(***************************************************************************)

MaxLookups == 3
SearchQueries == {"cube", " Cube ", "SPHERE", "pyramid", "a gear"}

InitSearch ==
    /\ fn = "" /\ arg = NoRet /\ ret = NoRet /\ pc = "ready"
    /\ Constructed
    /\ PlatformIdle

SearchForTemplate(query, web) ==
    LET out == search_for_template(template_cache, query, web)
    IN  /\ calls < MaxLookups
        /\ fn' = "search_for_template"
        /\ arg' = [query |-> query, web |-> web]
        /\ ret' = out.template
        /\ pc' = "done"
        /\ template_cache' = out.cache
        /\ lookups' = IF out.ran THEN Append(lookups, CacheKey(query)) ELSE lookups
        /\ calls' = calls + 1
        /\ UNCHANGED <<model_loaded, user_states, models, synth, steps, platform>>

NextSearch == \E query \in SearchQueries, web \in WebOutcomes : SearchForTemplate(query, web)

SpecSearch == InitSearch /\ [][NextSearch]_vars

(***************************************************************************)
(* Harness of the code synthesizer: calls of generate_code on a service    *)
(* whose backend is loaded or not                                          *)
(***************************************************************************)

MaxGenerations == 1
GeneratePrompts == {"a cube 5x5x5", "Sphere", "pyramid", "a CONE in a tube", "cone"}
GenerateParameters ==
    { EmptyDict,
      << [k |-> "width", v |-> IntV(7)] >>,
      << [k |-> "width", v |-> IntV(-7)], [k |-> "radius", v |-> FloatV(2500)] >> }
GenerateUsers == {"", "u1"}
\* the cache of a new service, and the cache earlier lookups have filled
GenerateCaches ==
    { EmptyDict,
      search_for_template(search_for_template(EmptyDict, "pyramid", RichWeb).cache,
                          "sphere", RichWeb).cache }

\* the receiver of the calls: its backend flag and its cache are inputs
InitGenerate ==
    /\ fn = "" /\ arg = NoRet /\ ret = NoRet /\ pc = "ready"
    /\ model_loaded \in BOOLEAN
    /\ template_cache \in GenerateCaches
    /\ user_states = <<>>
    /\ models = <<>>
    /\ lookups = <<>>
    /\ synth = <<>>
    /\ steps = <<>>
    /\ calls = 0
    /\ PlatformIdle

\* the service and the call record after generate_code returned out
GenerateCodeReturns(out, prompt, parameters, user_id, web, llm, save_ok) ==
    /\ fn' = "generate_code"
    /\ arg' = [prompt |-> prompt, parameters |-> parameters, user_id |-> user_id,
               web |-> web, llm |-> llm,
               save_ok |-> IF out.save_called THEN save_ok ELSE FALSE]
    /\ ret' = [raised |-> out.raised, result |-> out.result, handled |-> out.handled,
               save_called |-> out.save_called]
    /\ pc' = "done"
    /\ template_cache' = out.cache
    /\ models' = IF out.saved
                 THEN Append(models, [user_id |-> user_id, code |-> out.result.code,
                                      prompt |-> prompt])
                 ELSE models
    /\ lookups' = IF out.ran THEN Append(lookups, CacheKey(prompt)) ELSE lookups
    /\ synth' = Append(synth, [prompt |-> prompt, parameters |-> parameters,
                               user_id |-> user_id])
    /\ calls' = calls + 1
    /\ UNCHANGED <<model_loaded, user_states, steps, platform>>

GenerateCode(prompt, parameters, user_id) ==
    \E web \in WebsFor(template_cache, prompt) :
    \E llm \in LlmsFor(search_for_template(template_cache, prompt, web).template, model_loaded) :
    \E save_ok \in SavesFor(user_id) :
        GenerateCodeReturns(generate_code(template_cache, model_loaded, Len(models) + 1,
                                          prompt, parameters, user_id, web, llm, save_ok),
                            prompt, parameters, user_id, web, llm, save_ok)

NextGenerate ==
    /\ calls < MaxGenerations
    /\ \E prompt \in GeneratePrompts, parameters \in GenerateParameters,
          user_id \in GenerateUsers : GenerateCode(prompt, parameters, user_id)

SpecGenerate == InitGenerate /\ [][NextGenerate]_vars

(***************************************************************************)
(* Harness of the synthesizer shared by requesters: successive calls of    *)
(* generate_code, without parameters, on one template cache                *)
(***************************************************************************)

MaxSharedCalls == 2
SharedPrompts == {"pyramid", "Sphere"}
SharedUsers == {"", "u1", "u2"}

NextGenerateShared ==
    /\ calls < MaxSharedCalls
    /\ \E prompt \in SharedPrompts, user_id \in SharedUsers :
           GenerateCode(prompt, EmptyDict, user_id)

SpecGenerateShared == InitGenerate /\ [][NextGenerateShared]_vars

(***************************************************************************)
(* ConversationStateMachine: LLMService.chat_with_customer                 *)
(***************************************************************************)

\* the state a user gets with the first message; "" stands for None
NewUserState ==
    [chat_history |-> <<>>, current_state |-> "general", current_model |-> "",
     parameters_needed |-> EmptyDict, parameters_collected |-> EmptyDict]

Said(role, content) == [role |-> role, content |-> content]

\* the user's state when the try block starts: created if absent, the
\* message appended to the history
Entered(states, user_id, user_message) ==
    [DictGetOr(states, user_id, NewUserState)
        EXCEPT !.chat_history = Append(@, Said("user", user_message))]

\* get_missing_parameters gives up on what is missing once a parameter is in
Mut_get_missing_parameters_Any(needed, collected) ==
    IF collected # <<>> THEN <<>> ELSE needed

get_missing_parameters(needed, collected) ==
    SelectSeq(needed, LAMBDA e : ~DictHas(collected, e.k))

\* the words that ask for a parameter
AskedAs(param_name) ==
    IF param_name = "radius1" THEN "base radius"
    ELSE IF param_name = "radius2" THEN "top radius"
    ELSE param_name

RECURSIVE RequestLines(_)
\* for param_name, param_info in missing_params.items()
RequestLines(missing_params) ==
    IF missing_params = <<>> THEN ""
    ELSE "- What " \o AskedAs(Head(missing_params).k)
             \o " would you like? (default is " \o Head(missing_params).v.default \o ")\n"
             \o RequestLines(Tail(missing_params))

create_parameter_request(missing_params, model_type) ==
    IF missing_params = <<>>
    THEN "I have all the information I need to create your 3D model."
    ELSE "To create your " \o model_type \o ", I need a few more details.\n\n"
         \o RequestLines(missing_params)
         \o "\nYou can specify these all at once or one at a time. Or just say 'use defaults' to use the default values."

ApologyText ==
    "I'm sorry, I'm experiencing technical difficulties. Please try again later."
UnavailableText ==
    "I'm sorry, but the service is currently unavailable. Please try again later."
GeneratedText ==
    "Here's your OpenSCAD model! You can copy this code into OpenSCAD to view and customize it further."

\* re.sub(r"^ASSISTANT:\s*", "", response).strip()
CleanResponse(response) ==
    IF StartsAt(response, 1, "ASSISTANT:")
    THEN Strip(SubSeq(response, 11, Len(response)))
    ELSE Strip(response)

\* user_state["current_state"] = ...
SetState(st, phase) == [st EXCEPT !.current_state = phase]
\* the synthesis is not followed by a reset
Mut_ResetState_Skip(st) == st

\* the reset after the synthesis
ResetState(st) == SetState(st, "general")

\* the reply is not recorded in the history
Mut_Answered_Skip(st, response) == st

\* chat_history.append({"role": "assistant", "content": response})
Answered(st, response) ==
    [st EXCEPT !.chat_history = Append(@, Said("assistant", response))]

\* the parts of the environment a call consulted
Consulted(web, web2, llm, save_ok) ==
    [web |-> web, web2 |-> web2, llm |-> llm, save_ok |-> save_ok, fault |-> "none"]

\* the calls of the try block that an exception may leave
CallSites == {"classify", "parse", "lookup", "extract", "synthesis", "completion"}
\* the call at site raised
Struck(env, site) == [env EXCEPT !.fault = site]
\* whether the call at site raises, when faults are the sites that may
Strikes(faults, site) == IF site \in faults THEN BOOLEAN ELSE {FALSE}

\* no call of generate_code in this handling
NotGenerated == [called |-> FALSE]
\* the call of generate_code of this handling and what it returned
Generated(prompt, parameters, out) ==
    [called |-> TRUE, prompt |-> prompt, parameters |-> parameters, out |-> out]

\* what the handling of one message is remembered by: the phase, the needed
\* and the collected names before and after it, the phases it assigned in
\* order, the number of calls of generate_code it made, and the call that
\* raised in it
Handled(user_id, user_message, before, st, phases, gen, fault) ==
    [user_id |-> user_id, message |-> user_message,
     before |-> before.current_state,
     needed |-> DictKeys(before.parameters_needed),
     collected_before |-> DictKeys(before.parameters_collected),
     phases |-> phases,
     after |-> st.current_state,
     collected |-> DictKeys(st.parameters_collected),
     synths |-> IF gen.called THEN 1 ELSE 0,
     fault |-> fault]

\* chat_with_customer returns response, leaving the user's state st and the
\* cache, after the lookups looked and the synthesis gen
Return(user_id, user_message, st, response, phases, cache, looked, gen, env) ==
    /\ fn' = "chat_with_customer"
    /\ arg' = [user_id |-> user_id, user_message |-> user_message, env |-> env]
    /\ ret' = response
    /\ pc' = "done"
    /\ user_states' = DictSet(user_states, user_id, st)
    /\ template_cache' = cache
    /\ lookups' = lookups \o looked
    /\ models' = IF gen.called /\ gen.out.saved
                 THEN Append(models, [user_id |-> user_id, code |-> gen.out.result.code,
                                      prompt |-> gen.prompt])
                 ELSE models
    /\ synth' = IF gen.called
                THEN Append(synth, [prompt |-> gen.prompt, parameters |-> gen.parameters,
                                    user_id |-> user_id])
                ELSE synth
    /\ steps' = Append(steps, Handled(user_id, user_message,
                                      DictGetOr(user_states, user_id, NewUserState),
                                      st, phases, gen, env.fault))
    /\ calls' = calls + 1
    /\ UNCHANGED <<model_loaded, platform>>

\* a reply that is text only
Reply(user_id, user_message, st, response, phases, cache, looked, env) ==
    Return(user_id, user_message, Answered(st, response), [text |-> response],
           phases, cache, looked, NotGenerated, env)

\* without the handler the exception leaves chat_with_customer
Mut_Apologise_Propagate(user_id, user_message, st, phases, cache, looked, env, site) ==
    Return(user_id, user_message, st, [raised |-> site], phases, cache, looked,
           NotGenerated, Struck(env, site))

\* the exception handler: the call at site raised when the state was st
Apologise(user_id, user_message, st, phases, cache, looked, env, site) ==
    Reply(user_id, user_message, st, ApologyText, phases, cache, looked,
          Struck(env, site))

\* the return after the synthesis: the reply with the result, the history
\* extended, the state reset
ReturnGenerated(user_id, user_message, st, looked, out, web, web2, llm, save_ok) ==
    Return(user_id, user_message,
           ResetState(Answered(st, GeneratedText)),
           [text |-> GeneratedText, code |-> out.result.code,
            source |-> out.result.source, parameters |-> out.result.parameters,
            model_id |-> out.result.model_id],
           <<"generating", "general">>,
           out.cache,
           IF out.ran THEN Append(looked, CacheKey(st.current_model)) ELSE looked,
           Generated(st.current_model, st.parameters_collected, out),
           Consulted(web, web2, llm, out.save_called /\ save_ok))

\* the outcomes of the web and of the backend considered in a conversation
ChatWebOutcomes == { [raises |-> TRUE, pages |-> <<>>], RichWeb }
ChatLlmOutcomes ==
    { [raises |-> TRUE, text |-> ""],
      [raises |-> FALSE,
       text |-> "ASSISTANT: Sure!\n'''openscad\nwidth = 4;\ncube(width);\n'''\n"] }
ChatWebsFor(cache, query) == WebsFor(cache, query) \cap (ChatWebOutcomes \cup {Unused})
ChatLlmsFor(template, loaded) ==
    LlmsFor(template, loaded) \cap (ChatLlmOutcomes \cup {Unused})

\* generate_code after its lookup gave found: the backend and the model
\* store do what they do
GenerateFound(user_id, user_message, st, looked, found, web, web2) ==
    \E llm \in ChatLlmsFor(found.template, model_loaded) :
    \E save_ok \in SavesFor(user_id) :
        ReturnGenerated(user_id, user_message, st, looked,
                        GenerateFrom(found, model_loaded, Len(models) + 1,
                                     st.current_model, st.parameters_collected,
                                     user_id, llm, save_ok),
                        web, web2, llm, save_ok)

\* all parameters are provided: the state is "generating" while
\* generate_code(current_model, parameters_collected, user_id) runs on cache
GenerateModel(user_id, user_message, st, cache, looked, web, faults) ==
    \E raised \in Strikes(faults, "synthesis") :
        IF raised
        THEN Apologise(user_id, user_message, SetState(st, "generating"),
                       <<"generating">>, cache, looked,
                       Consulted(web, Unused, Unused, FALSE), "synthesis")
        ELSE \E web2 \in ChatWebsFor(cache, st.current_model) :
                 GenerateFound(user_id, user_message, SetState(st, "generating"), looked,
                               search_for_template(cache, st.current_model, web2),
                               web, web2)

\* the model is generated whether or not parameters are missing
Mut_AskOrGenerate_Always(user_id, user_message, st, missing_params, cache, looked, web, entering, faults) ==
    GenerateModel(user_id, user_message, st, cache, looked, web, faults)

\* the end of both slot-filling branches: ask for what is missing, or
\* generate; entering tells the branch of the request from that of the reply
AskOrGenerate(user_id, user_message, st, missing_params, cache, looked, web, entering, faults) ==
    IF missing_params # <<>>
    THEN Reply(user_id, user_message,
               IF entering THEN SetState(st, "collecting_parameters") ELSE st,
               create_parameter_request(missing_params, st.current_model),
               IF entering THEN <<"collecting_parameters">> ELSE <<>>,
               cache, looked, Consulted(web, Unused, Unused, FALSE))
    ELSE GenerateModel(user_id, user_message, st, cache, looked, web, faults)

\* the parameters of the request are added to those collected before
Mut_Requested_KeepCollected(st, model_info, template_result) ==
    [st EXCEPT !.current_model = model_info.type,
               !.parameters_needed = IF template_result.code # ""
                                     THEN template_result.parameters
                                     ELSE get_fallback_parameters(model_info.type),
               !.parameters_collected = DictUpdate(@, model_info.parameters)]

\* the needed parameters are taken from the fallback table even when a
\* template was found
Mut_Requested_FallbackOnly(st, model_info, template_result) ==
    [st EXCEPT !.current_model = model_info.type,
               !.parameters_needed = get_fallback_parameters(model_info.type),
               !.parameters_collected = model_info.parameters]

\* the state a model request starts with: the model type, the needed
\* parameters of the template found (or of the fallback table), the
\* parameters the request itself gave
Requested(st, model_info, template_result) ==
    [st EXCEPT !.current_model = model_info.type,
               !.parameters_needed = IF template_result.code # ""
                                     THEN template_result.parameters
                                     ELSE get_fallback_parameters(model_info.type),
               !.parameters_collected = model_info.parameters]

\* the branch of a model request, once the request is recorded in st
RequestRecorded(user_id, user_message, st, found, web, faults) ==
    AskOrGenerate(user_id, user_message, st,
                  get_missing_parameters(st.parameters_needed, st.parameters_collected),
                  found.cache,
                  IF found.ran THEN <<CacheKey(st.current_model)>> ELSE <<>>,
                  web, TRUE, faults)

\* the branch of a model request in the general state
StartRequest(user_id, user_message, st, model_info, faults) ==
    \E raised \in Strikes(faults, "lookup") :
        IF raised
        THEN Apologise(user_id, user_message,
                       [st EXCEPT !.current_model = model_info.type], <<>>,
                       template_cache, <<>>, Consulted(Unused, Unused, Unused, FALSE),
                       "lookup")
        ELSE \E web \in ChatWebsFor(template_cache, model_info.type) :
                 RequestRecorded(user_id, user_message,
                                 Requested(st, model_info,
                                           search_for_template(template_cache,
                                                               model_info.type,
                                                               web).template),
                                 search_for_template(template_cache, model_info.type, web),
                                 web, faults)

\* a value collected before is kept when the message gives another
Mut_Collected_OldWins(st, new_parameters) ==
    [st EXCEPT !.parameters_collected = DictUpdate(new_parameters, @)]

\* the collected parameters are replaced by the new ones
Mut_Collected_Replace(st, new_parameters) ==
    [st EXCEPT !.parameters_collected = new_parameters]

\* user_state["parameters_collected"].update(new_parameters)
Collected(st, new_parameters) ==
    [st EXCEPT !.parameters_collected = DictUpdate(@, new_parameters)]

\* the branch of a reply while collecting, once the reply is merged into st
ReplyMerged(user_id, user_message, st, faults) ==
    AskOrGenerate(user_id, user_message, st,
                  get_missing_parameters(st.parameters_needed, st.parameters_collected),
                  template_cache, <<>>, Unused, FALSE, faults)

\* a model request met while collecting starts a new request
Mut_CollectReply_Restart(user_id, user_message, st, faults) ==
    IF is_model_request(user_message)
    THEN StartRequest(user_id, user_message, st, parse_model_request(user_message), faults)
    ELSE ReplyMerged(user_id, user_message,
                     Collected(st, extract_parameters_from_message(
                                       user_message, st.parameters_needed)),
                     faults)

\* the branch of a reply while collecting
CollectReply(user_id, user_message, st, faults) ==
    \E raised \in Strikes(faults, "extract") :
        IF raised
        THEN Apologise(user_id, user_message, st, <<>>, template_cache, <<>>,
                       Consulted(Unused, Unused, Unused, FALSE), "extract")
        ELSE ReplyMerged(user_id, user_message,
                         Collected(st, extract_parameters_from_message(
                                           user_message, st.parameters_needed)),
                         faults)

\* general conversation: the reply is the backend's text, whatever the
\* prompt made of the last five messages
GeneralChat(user_id, user_message, st, faults) ==
    \E raised \in Strikes(faults, "completion") :
        IF raised
        THEN Apologise(user_id, user_message, st, <<>>, template_cache, <<>>,
                       Consulted(Unused, Unused, Unused, FALSE), "completion")
        ELSE \E llm \in ChatLlmOutcomes :
                 Reply(user_id, user_message, st, CleanResponse(generate_text(llm)),
                       <<>>, template_cache, <<>>, Consulted(Unused, Unused, llm, FALSE))

\* a model request in the general state: _parse_model_request, then the branch
ParseRequest(user_id, user_message, st, faults) ==
    \E raised \in Strikes(faults, "parse") :
        IF raised
        THEN Apologise(user_id, user_message, st, <<>>, template_cache, <<>>,
                       Consulted(Unused, Unused, Unused, FALSE), "parse")
        ELSE StartRequest(user_id, user_message, st,
                          parse_model_request(user_message), faults)

\* the general state: _is_model_request tells a model request from
\* conversation
Classify(user_id, user_message, st, faults) ==
    \E raised \in Strikes(faults, "classify") :
        IF raised
        THEN Apologise(user_id, user_message, st, <<>>, template_cache, <<>>,
                       Consulted(Unused, Unused, Unused, FALSE), "classify")
        ELSE IF is_model_request(user_message)
        THEN ParseRequest(user_id, user_message, st, faults)
        ELSE GeneralChat(user_id, user_message, st, faults)

\* the try block of chat_with_customer and its handler. The calls it makes
\* catch their own exceptions; faults are the calls that raise all the same
\* in the behaviours considered (none in normal operation), each before it
\* has had any effect
HandleMessage(user_id, user_message, st, faults) ==
    IF ~model_loaded
    THEN Reply(user_id, user_message, st, UnavailableText, <<>>, template_cache, <<>>,
               Consulted(Unused, Unused, Unused, FALSE))
    ELSE IF st.current_state = "general"
    THEN Classify(user_id, user_message, st, faults)
    ELSE IF st.current_state = "collecting_parameters"
    THEN CollectReply(user_id, user_message, st, faults)
    ELSE GeneralChat(user_id, user_message, st, faults)

ChatWithCustomer(user_id, user_message, faults) ==
    HandleMessage(user_id, user_message, Entered(user_states, user_id, user_message),
                  faults)

(***************************************************************************)
(* Harness of the conversation: the messages of a user, one after another  *)
(***************************************************************************)

MaxTurns == 4
ChatUsers == {"u1"}
ChatMessages ==
    {"create a cube", "width is 10", "set the height to 20", "depth: 30",
     "use defaults", "make a sphere with radius 5"}

InitChat ==
    /\ fn = "" /\ arg = NoRet /\ ret = NoRet /\ pc = "ready"
    /\ Constructed
    /\ PlatformIdle

NextChat ==
    /\ calls < MaxTurns
    /\ \E user_id \in ChatUsers, user_message \in ChatMessages :
           ChatWithCustomer(user_id, user_message, {})

SpecChat == InitChat /\ [][NextChat]_vars

(***************************************************************************)
(* Harness of the conversation outside normal operation: the backend may   *)
(* be unavailable, and a call of the handler may raise                     *)
(***************************************************************************)

MaxDegradedTurns == 3

\* the backend flag is an input
InitChatDegraded ==
    /\ fn = "" /\ arg = NoRet /\ ret = NoRet /\ pc = "ready"
    /\ model_loaded \in BOOLEAN
    /\ template_cache = <<>>
    /\ user_states = <<>>
    /\ models = <<>>
    /\ lookups = <<>>
    /\ synth = <<>>
    /\ steps = <<>>
    /\ calls = 0
    /\ PlatformIdle

NextChatDegraded ==
    /\ calls < MaxDegradedTurns
    /\ \E user_id \in ChatUsers, user_message \in ChatMessages :
           ChatWithCustomer(user_id, user_message, CallSites)

SpecChatDegraded == InitChatDegraded /\ [][NextChatDegraded]_vars

(***************************************************************************)
(* SecurityManager.apply_rate_limit; times in whole seconds                *)
(***************************************************************************)

\* the limiter a key gets on its first call
NewLimiter == [requests |-> <<>>, blocked_until |-> 0]

\* the result None of the retry time
NoRetry == -1

\* the comparison of the cleanup made strict
Mut_InWindow_Strict(t, at, window) == at - t < window

\* if now - t <= window
InWindow(t, at, window) == at - t <= window

\* now + (window * 2)
BlockedUntil(at, window) == at + (window * 2)

\* apply_rate_limit(key, limit, window) when the clock reads at: the result
\* and the limiter of the key afterwards
apply_rate_limit(limiters, key, limit, window, at) ==
    LET limiter == DictGetOr(limiters, key, NewLimiter)
        kept    == SelectSeq(limiter.requests, LAMBDA t : InWindow(t, at, window))
    IN  IF limiter.blocked_until > at
        THEN [allowed |-> FALSE, retry_after |-> limiter.blocked_until - at,
              blocked |-> TRUE, seen |-> Len(limiter.requests), limiter |-> limiter]
        ELSE IF Len(kept) >= limit
        THEN [allowed |-> FALSE, retry_after |-> window * 2,
              blocked |-> FALSE, seen |-> Len(kept),
              limiter |-> [requests |-> kept, blocked_until |-> BlockedUntil(at, window)]]
        ELSE [allowed |-> TRUE, retry_after |-> NoRetry,
              blocked |-> FALSE, seen |-> Len(kept),
              limiter |-> [limiter EXCEPT !.requests = Append(kept, at)]]

(***************************************************************************)
(* Harness of the rate limiter: calls for a few keys, with one limit and   *)
(* one window, at times that do not decrease                               *)
(***************************************************************************)

MaxRateCalls == 5
MaxTime == 7
RateKeys == {"ip1", "ip2"}
RateLimits == {1, 2}
RateWindows == {1, 2}

InitRateLimit ==
    /\ fn = "apply_rate_limit"
    /\ arg \in [key : {""}, limit : RateLimits, window : RateWindows]
    /\ ret = NoRet
    /\ pc = "ready"
    /\ Constructed
    /\ PlatformIdle

ApplyRateLimit(key, at) ==
    LET out == apply_rate_limit(rate_limiters, key, arg.limit, arg.window, at)
    IN  /\ calls < MaxRateCalls
        /\ arg' = [arg EXCEPT !.key = key]
        /\ ret' = [allowed |-> out.allowed, retry_after |-> out.retry_after]
        /\ pc' = "done"
        /\ now' = at
        /\ rate_limiters' = DictSet(rate_limiters, key, out.limiter)
        /\ steps' = Append(steps, [key |-> key, at |-> at, allowed |-> out.allowed,
                                   blocked |-> out.blocked, seen |-> out.seen])
        /\ calls' = calls + 1
        /\ UNCHANGED <<fn, model_loaded, template_cache, user_states, models, lookups,
                       synth, token_files, workers, orders, razorpay_service>>

NextRateLimit == \E key \in RateKeys, at \in now..MaxTime : ApplyRateLimit(key, at)

SpecRateLimit == InitRateLimit /\ [][NextRateLimit]_vars

(***************************************************************************)
(* TokenManager: add_tokens and use_tokens, each a load of the user's      *)
(* file, a computation on the loaded copy and a save                       *)
(***************************************************************************)

\* the data _load_user_data returns when the user has no file
NewUserData == [balance |-> 0, transactions |-> <<>>]

\* _load_user_data(user_id)
load_user_data(files, user_id) == DictGetOr(files, user_id, NewUserData)

\* _save_user_data(user_id, data) when the file can be written (written)
\* and when opening it fails
save_user_data(files, user_id, data, written) ==
    IF written THEN DictSet(files, user_id, data) ELSE files

\* the balance is not compared with the amount
Mut_Affordable_Always(user_data, amount) == TRUE

\* not (current_balance < amount)
Affordable(user_data, amount) == ~(user_data.balance < amount)

\* the loaded copy with the amount added or deducted and the transaction
\* recorded
Transacted(user_data, type, amount) ==
    [balance |-> IF type = "credit" THEN user_data.balance + amount
                 ELSE user_data.balance - amount,
     transactions |-> Append(user_data.transactions, [type |-> type, amount |-> amount])]

\* a thread that is in no call
IdleWorker == [pc |-> "idle"]

TransactionType(op) == IF op = "add_tokens" THEN "credit" ELSE "debit"

\* the call of thread returns ok; seen is the user's file as the call found
\* it when it returned
TokenCallReturns(thread, op, user_id, amount, ok, files) ==
    /\ fn' = op
    /\ arg' = [user_id |-> user_id, amount |-> amount, thread |-> thread]
    /\ ret' = ok
    /\ pc' = "done"
    /\ token_files' = files
    /\ steps' = Append(steps, [thread |-> thread, op |-> op, user_id |-> user_id,
                               amount |-> amount, ok |-> ok,
                               before |-> load_user_data(token_files, user_id),
                               after |-> load_user_data(files, user_id)])

\* a thread enters add_tokens or use_tokens: an amount <= 0 returns False
TokenCall(thread, op, user_id, amount, max_calls) ==
    /\ calls < max_calls
    /\ workers[thread].pc = "idle"
    /\ calls' = calls + 1
    /\ IF amount <= 0
       THEN /\ TokenCallReturns(thread, op, user_id, amount, FALSE, token_files)
            /\ UNCHANGED workers
       ELSE /\ workers' = [workers EXCEPT ![thread] =
                              [pc |-> "load", op |-> op, user_id |-> user_id,
                               amount |-> amount]]
            /\ UNCHANGED <<fn, arg, ret, pc, token_files, steps>>
    /\ UNCHANGED <<model_loaded, template_cache, user_states, models, lookups, synth,
                   rate_limiters, now, orders, razorpay_service>>

\* the thread loads the user's data; use_tokens returns False when the
\* loaded balance is less than the amount; else the copy is updated
TokenLoad(thread) ==
    LET w         == workers[thread]
        user_data == load_user_data(token_files, w.user_id)
    IN  /\ w.pc = "load"
        /\ IF w.op = "use_tokens" /\ ~Affordable(user_data, w.amount)
           THEN /\ TokenCallReturns(thread, w.op, w.user_id, w.amount, FALSE, token_files)
                /\ workers' = [workers EXCEPT ![thread] = IdleWorker]
           ELSE /\ workers' = [workers EXCEPT ![thread] =
                                  [pc |-> "save", op |-> w.op, user_id |-> w.user_id,
                                   amount |-> w.amount,
                                   user_data |-> Transacted(user_data,
                                                            TransactionType(w.op),
                                                            w.amount)]]
                /\ UNCHANGED <<fn, arg, ret, pc, token_files, steps>>
        /\ UNCHANGED <<model_loaded, template_cache, user_states, models, lookups, synth,
                       calls, rate_limiters, now, orders, razorpay_service>>

\* the thread saves its copy and returns what the save returns
TokenSave(thread) ==
    LET w == workers[thread]
    IN  /\ w.pc = "save"
        /\ \E written \in BOOLEAN :
               TokenCallReturns(thread, w.op, w.user_id, w.amount, written,
                                save_user_data(token_files, w.user_id, w.user_data,
                                               written))
        /\ workers' = [workers EXCEPT ![thread] = IdleWorker]
        /\ UNCHANGED <<model_loaded, template_cache, user_states, models, lookups, synth,
                       calls, rate_limiters, now, orders, razorpay_service>>

(***************************************************************************)
(* Harnesses of the token ledger: one thread, and two threads whose steps  *)
(* interleave                                                              *)
(***************************************************************************)

MaxTokenCalls == 4
MaxConcurrentCalls == 3
TokenUsers == {"u1", "u2"}
TokenAmounts == {-1, 0, 1, 2}
TokenOps == {"add_tokens", "use_tokens"}

InitTokensOf(threads) ==
    /\ fn = "" /\ arg = NoRet /\ ret = NoRet /\ pc = "ready"
    /\ Constructed
    /\ rate_limiters = <<>>
    /\ now = 0
    /\ token_files = <<>>
    /\ workers = [thread \in 1..threads |-> IdleWorker]
    /\ orders = <<>>
    /\ razorpay_service = "none"

NextTokensOf(threads, max_calls) ==
    \E thread \in 1..threads :
        \/ \E op \in TokenOps, user_id \in TokenUsers, amount \in TokenAmounts :
               TokenCall(thread, op, user_id, amount, max_calls)
        \/ TokenLoad(thread)
        \/ TokenSave(thread)

InitTokens == InitTokensOf(1)
NextTokens == NextTokensOf(1, MaxTokenCalls)
SpecTokens == InitTokens /\ [][NextTokens]_vars

InitTokensConcurrent == InitTokensOf(2)
NextTokensConcurrent == NextTokensOf(2, MaxConcurrentCalls)
SpecTokensConcurrent == InitTokensConcurrent /\ [][NextTokensConcurrent]_vars

(***************************************************************************)
(* PaymentController.create_order and verify_payment, with                 *)
(* RazorpayService.verify_payment_signature                                *)
(***************************************************************************)

\* PaymentController.token_packages
token_packages ==
    << [k |-> "small", v |-> [tokens |-> 50, price |-> 99, currency |-> "INR"]],
       [k |-> "medium", v |-> [tokens |-> 200, price |-> 299, currency |-> "INR"]],
       [k |-> "large", v |-> [tokens |-> 500, price |-> 599, currency |-> "INR"]] >>

\* the order create_order writes; serial stands for the random part of the
\* order ids
NewOrder(serial, user_id, package_id) ==
    [order_id |-> "order_" \o NatStr(serial),
     razorpay_order_id |-> "rzp_" \o NatStr(serial),
     user_id |-> user_id, package_id |-> package_id,
     amount |-> DictGet(token_packages, package_id).price,
     currency |-> DictGet(token_packages, package_id).currency,
     tokens |-> DictGet(token_packages, package_id).tokens,
     status |-> "created", payment_id |-> ""]

\* create_order(user_id, package_id); written tells whether the order file
\* could be written
create_order(stored, user_id, package_id, written) ==
    IF ~DictHas(token_packages, package_id)
    THEN [success |-> FALSE, data |-> [error |-> "Invalid package ID"], orders |-> stored]
    ELSE IF ~written
    THEN [success |-> FALSE, data |-> [error |-> "write"], orders |-> stored]
    ELSE LET order == NewOrder(Len(stored) + 1, user_id, package_id)
         IN  [success |-> TRUE, data |-> order,
              orders |-> DictSet(stored, order.order_id, order)]

\* RazorpayService.verify_payment_signature: True without a client; with
\* one, what the SDK finds (sdk_valid), False when a field is missing
verify_payment_signature(payments, data, sdk_valid) ==
    IF payments = "mock" THEN TRUE
    ELSE IF data.razorpay_order_id = "" \/ data.razorpay_payment_id = ""
            \/ data.razorpay_signature = ""
    THEN FALSE
    ELSE sdk_valid

\* if self.razorpay_service and razorpay_signature
SignatureChecked(payments, razorpay_signature) ==
    payments # "none" /\ razorpay_signature # ""

\* the order completed by the payment
Completed_order(order, razorpay_payment_id) ==
    [order EXCEPT !.status = "completed", !.payment_id = razorpay_payment_id]

\* verify_payment(payment_data); "" stands for an absent field
verify_payment(stored, payments, payment_data, sdk_valid, written) ==
    IF payment_data.order_id = "" \/ payment_data.razorpay_payment_id = ""
    THEN [success |-> FALSE, data |-> [error |-> "Missing required payment data"],
          orders |-> stored, checked |-> FALSE]
    ELSE IF ~DictHas(stored, payment_data.order_id)
    THEN [success |-> FALSE, data |-> [error |-> "Order not found"],
          orders |-> stored, checked |-> FALSE]
    ELSE LET order_data == DictGet(stored, payment_data.order_id)
             checked    == SignatureChecked(payments, payment_data.razorpay_signature)
             is_valid   == verify_payment_signature(
                               payments,
                               [razorpay_order_id |-> order_data.razorpay_order_id,
                                razorpay_payment_id |-> payment_data.razorpay_payment_id,
                                razorpay_signature |-> payment_data.razorpay_signature],
                               sdk_valid)
         IN  IF checked /\ ~is_valid
             THEN [success |-> FALSE, data |-> [error |-> "Invalid payment signature"],
                   orders |-> stored, checked |-> TRUE]
             ELSE IF ~written
             THEN [success |-> FALSE, data |-> [error |-> "write"],
                   orders |-> stored, checked |-> checked]
             ELSE [success |-> TRUE,
                   data |-> [order_id |-> payment_data.order_id,
                             payment_id |-> payment_data.razorpay_payment_id,
                             tokens |-> order_data.tokens,
                             amount |-> order_data.amount,
                             currency |-> order_data.currency],
                   orders |-> DictSet(stored, payment_data.order_id,
                                      Completed_order(order_data,
                                                      payment_data.razorpay_payment_id)),
                   checked |-> checked]

(***************************************************************************)
(* Harness of the payments: orders are created and payments verified,     *)
(* with no payment service, one without a client and one with a client     *)
(***************************************************************************)

MaxOrders == 2
MaxPaymentCalls == 4
PaymentUsers == {"u1"}
PackageIds == {"small", "large", "huge"}
\* the signatures a request carries: none, the one the gateway issued for
\* the payment, another one
Signatures == {"", "valid", "forged"}
PaymentRequests ==
    [order_id : {"", "order_1", "order_2", "order_9"},
     razorpay_payment_id : {"", "pay_1"},
     razorpay_signature : Signatures]

InitPayments ==
    /\ fn = "" /\ arg = NoRet /\ ret = NoRet /\ pc = "ready"
    /\ Constructed
    /\ rate_limiters = <<>>
    /\ now = 0
    /\ token_files = <<>>
    /\ workers = <<>>
    /\ orders = <<>>
    /\ razorpay_service \in {"none", "mock", "client"}

PaymentReturns(name, input, out, logged) ==
    /\ calls < MaxPaymentCalls
    /\ fn' = name
    /\ arg' = input
    /\ ret' = [success |-> out.success, data |-> out.data]
    /\ pc' = "done"
    /\ orders' = out.orders
    /\ steps' = Append(steps, logged)
    /\ calls' = calls + 1
    /\ UNCHANGED <<model_loaded, template_cache, user_states, models, lookups, synth,
                   rate_limiters, now, token_files, workers, razorpay_service>>

CreateOrder(user_id, package_id) ==
    /\ Len(orders) < MaxOrders
    /\ \E written \in BOOLEAN :
           PaymentReturns("create_order",
                          [user_id |-> user_id, package_id |-> package_id],
                          create_order(orders, user_id, package_id, written),
                          [op |-> "create_order"])

\* the SDK finds valid the signature the gateway issued, and no other
VerifyPayment(payment_data) ==
    \E written \in BOOLEAN :
        PaymentReturns("verify_payment", payment_data,
                       verify_payment(orders, razorpay_service, payment_data,
                                      payment_data.razorpay_signature = "valid", written),
                       [op |-> "verify_payment",
                        checked |-> verify_payment(orders, razorpay_service, payment_data,
                                                   payment_data.razorpay_signature = "valid",
                                                   written).checked,
                        before |-> orders])

NextPayments ==
    \/ \E user_id \in PaymentUsers, package_id \in PackageIds :
           CreateOrder(user_id, package_id)
    \/ \E payment_data \in PaymentRequests : VerifyPayment(payment_data)

SpecPayments == InitPayments /\ [][NextPayments]_vars

(***************************************************************************)
(* Claims                                                                  *)
(***************************************************************************)

\* some term of the vocabulary occurs in text when case is ignored: there are
\* a position and a term whose letters equal the text's there up to case
OccursIgnoringCase(vocab, text) ==
    \E k \in 1..Len(vocab) : \E i \in 1..Len(text) :
        /\ i + Len(vocab[k]) - 1 <= Len(text)
        /\ \A j \in 1..Len(vocab[k]) :
              LowerCh(At(text, i + j - 1)) = At(vocab[k], j)

\* C4: classify returns true if and only if the message contains, ignoring
\* case, a term of the action vocabulary and a term of the object vocabulary;
\* "Please generate a cube for me" is a request, "generate a report" is not.
C4_ClassifyIffBothVocabularies ==
    (fn = "is_model_request" /\ pc = "done") =>
        /\ ret = (OccursIgnoringCase(model_keywords, arg)
                    /\ OccursIgnoringCase(object_keywords, arg))
        /\ (arg = "Please generate a cube for me" => ret = TRUE)
        /\ (arg = "generate a report" => ret = FALSE)

\* C4 witnesses: a mixed-case request accepted, and a message with a term of
\* one vocabulary only rejected
C4_Witness ==
    /\ fn = "is_model_request" /\ pc = "done"
    /\ arg = "Please CREATE a Box for me" /\ ret = TRUE

\* the value each default of the harness is coerced to, written out by hand;
\* Omitted for a number default that is no number
Omitted == [t |-> "omitted", n |-> 0, s |-> ""]
CoercedDefault(info) ==
    IF info.type = "number"
    THEN CASE info.default = "10"  -> FloatV(10000)
           [] info.default = "2.5" -> FloatV(2500)
           [] info.default = "-5"  -> FloatV(-5000)
           [] OTHER                -> Omitted
    ELSE IF info.type = "boolean"
    THEN (IF info.default \in {"true", "TRUE", "True"} THEN BoolV(TRUE) ELSE BoolV(FALSE))
    ELSE StrV(info.default)

ReturnedAs(result, name, value) ==
    IF value = Omitted THEN ~DictHas(result, name)
    ELSE DictHas(result, name) /\ DictGet(result, name) = value

DefaultsCallDone == fn = "extract" /\ pc = "done" /\ arg.kind = "defaults"

\* C6 as stated: on a "use defaults" message extract returns, for every
\* needed parameter, its default coerced by kind (number: parsed float,
\* boolean: case-insensitive "true" test, otherwise the string unchanged);
\* only a number default that does not parse is omitted.
C6_AsStated ==
    DefaultsCallDone =>
        \A i \in 1..Len(arg.needed) :
            ReturnedAs(ret, arg.needed[i].k, CoercedDefault(arg.needed[i].v))

\* C6 amended: on a "use defaults" message extract returns, for every needed
\* parameter whose default is not empty, its default coerced by kind; a
\* parameter whose default is empty, and a number parameter whose default
\* does not parse, is omitted, and the other parameters are still returned,
\* and nothing else is; needed {radius: "10"} yields {radius: 10.0}.
C6_UseDefaults ==
    DefaultsCallDone =>
        /\ \A i \in 1..Len(arg.needed) :
              ReturnedAs(ret, arg.needed[i].k,
                         IF arg.needed[i].v.default = "" THEN Omitted
                         ELSE CoercedDefault(arg.needed[i].v))
        /\ DictKeys(ret) \subseteq DictKeys(arg.needed)
        /\ (arg.needed = << [k |-> "radius", v |-> NumberSpec("10")] >>
               => ret = << [k |-> "radius", v |-> FloatV(10000)] >>)

\* C6 witness: a malformed number default is skipped and the boolean default
\* after it is still returned
C6_Witness ==
    /\ DefaultsCallDone
    /\ arg.needed = << [k |-> "radius", v |-> NumberSpec("w/2")],
                       [k |-> "center", v |-> [default |-> "TRUE", type |-> "boolean"]] >>
    /\ ret = << [k |-> "center", v |-> BoolV(TRUE)] >>

MeasureCallDone == fn \in {"extract", "parse_request"} /\ pc = "done" /\ arg.kind = "measure"

\* C8: in parse_request and in extract a number with a unit suffix that is
\* attributed to a dimension is stored as number x factor millimetres, with
\* factors mm 1, cm 10, m 1000, in 25.4 (a diameter halved into the radius).
C8_UnitNormalisation ==
    MeasureCallDone =>
        LET mm == (arg.num.milli * arg.unit.factor10) \div 10
        IN  ReturnedAs(ret, arg.dim.name, FloatV(IF arg.dim.halve THEN mm \div 2 ELSE mm))

\* the assignments with the value of every assignment to a supplied name
\* replaced by the supplied value, the others kept
SubstituteExact(stmts, parameters) ==
    [i \in 1..Len(stmts) |->
        IF DictHas(parameters, stmts[i].name)
        THEN [name |-> stmts[i].name, value |-> PyStr(DictGet(parameters, stmts[i].name))]
        ELSE stmts[i]]

DistinctNames(stmts) == \A i, j \in 1..Len(stmts) : stmts[i].name = stmts[j].name => i = j

\* C5: parameter substitution is exact-match-by-name: it rewrites only the
\* value of an assignment whose name equals a supplied parameter name, puts
\* the supplied value there verbatim and leaves every other assignment and
\* all other text unchanged (code that assigns each name once); {width: 7} on
\* "width = 10;\nheight = 10;" yields "width = 7;\nheight = 10;".
C5_ExactMatchSubstitution ==
    (fn = "apply_parameters" /\ pc = "done" /\ DistinctNames(arg.stmts)) =>
        ret = Returned(Render(SubstituteExact(arg.stmts, arg.parameters)))

\* C7: the parameter spec set returned by extract_parameters contains none
\* of the reserved names i, j, x, y, z, temp, tmp, result, wherever in the
\* code the name occurs; "x = 5; width = 10;" yields only width.
C7_NoReservedNames ==
    (fn = "extract_parameters" /\ pc = "done") =>
        /\ DictKeys(ret) \cap reserved_names = {}
        /\ (arg = "x = 5; width = 10;" => DictKeys(ret) = {"width"})

\* C9: over any sequence of search_for_template calls the search pipeline
\* runs at most once per normalized (trimmed, lowercased) query: no cache
\* key occurs twice in the history of pipeline runs.
C9_AtMostOnceLookup ==
    \A i, j \in 1..Len(lookups) : lookups[i] = lookups[j] => i = j

\* generate_code has returned from a call
GenerateDone == fn = "generate_code" /\ pc = "done"

\* the call ran the search pipeline and it gave no template
LookupMissed ==
    /\ arg.web # Unused
    /\ arg.web.raises \/ FirstPage(arg.web.pages, arg.prompt).code = ""

\* the backend was asked and raised or returned nothing
BackendFailed == arg.llm # Unused /\ (arg.llm.raises \/ Strip(arg.llm.text) = "")

\* C2: generate never fails: whatever the prompt, the parameter map, the
\* outcome of the template lookup, the backend (unloaded, raising, empty
\* output) and the save (failure), generate_code returns, without raising,
\* a result whose code is not empty; a lookup that misses followed by a
\* backend that is unloaded or fails ends at the static fallback.
C2_GenerateNeverFails ==
    GenerateDone =>
        /\ ~ret.raised
        /\ ret.result.code # ""
        /\ (LookupMissed /\ (~model_loaded \/ BackendFailed)) =>
               /\ ret.result.source = "Generated by fallback system"
               /\ Contains(ret.result.code, "// Generated by 3D Model Generator")

\* the lookup raised, the backend raised, the save failed, and a result came
C2_Witness ==
    /\ GenerateDone
    /\ arg.web # Unused /\ arg.web.raises
    /\ arg.llm # Unused /\ arg.llm.raises
    /\ arg.user_id # "" /\ ~arg.save_ok
    /\ ret.result.code # ""

\* the text of a supplied value, or the fixed default
ValueOr(parameters, name, default) ==
    IF DictHas(parameters, name) THEN PyStr(DictGet(parameters, name)) ELSE default

\* the statements the static fallback for a prompt holds: those of the first
\* of cube/box, sphere/ball, cylinder/tube, cone that occurs in the prompt,
\* else those of the default cube
ExpectedFallback(prompt, parameters) ==
    IF OccursIgnoringCase(<<"cube", "box">>, prompt)
    THEN { "width = " \o ValueOr(parameters, "width", "10") \o ";",
           "height = " \o ValueOr(parameters, "height", "10") \o ";",
           "depth = " \o ValueOr(parameters, "depth", "10") \o ";",
           "cube([w, h, d]);" }
    ELSE IF OccursIgnoringCase(<<"sphere", "ball">>, prompt)
    THEN { "radius = " \o ValueOr(parameters, "radius", "10") \o ";", "sphere(r=r);" }
    ELSE IF OccursIgnoringCase(<<"cylinder", "tube">>, prompt)
    THEN { "height = " \o ValueOr(parameters, "height", "20") \o ";",
           "radius = " \o ValueOr(parameters, "radius", "5") \o ";",
           "cylinder(h=h, r=r);" }
    ELSE IF OccursIgnoringCase(<<"cone">>, prompt)
    THEN { "height = " \o ValueOr(parameters, "height", "20") \o ";",
           "radius1 = " \o ValueOr(parameters, "radius1", "10") \o ";",
           "radius2 = " \o ValueOr(parameters, "radius2", "0") \o ";",
           "cylinder(h=h, r1=r1, r2=r2);" }
    ELSE { "size = " \o ValueOr(parameters, "size", "10") \o ";", "cube(size);" }

\* C3: resolution-order fallback: when the template lookup returns the
\* empty template and the backend is not loaded, generate_code returns,
\* without raising, non-empty code labelled as fallback, the static template
\* chosen by keyword (cube/box, sphere/ball, cylinder/tube, cone, else the
\* default cube) and filled with the supplied values or the fixed defaults.
C3_ResolutionOrderFallback ==
    (GenerateDone /\ ~model_loaded /\ LookupMissed) =>
        /\ ~ret.raised
        /\ ret.result.code # ""
        /\ ret.result.source = "Generated by fallback system"
        /\ \A text \in ExpectedFallback(arg.prompt, arg.parameters) :
               Contains(ret.result.code, text)

\* "a cube 5x5x5" with a supplied width, no template, backend not loaded
C3_Witness ==
    /\ GenerateDone /\ ~model_loaded /\ LookupMissed
    /\ arg.prompt = "a cube 5x5x5" /\ DictHas(arg.parameters, "width")
    /\ ret.result.source = "Generated by fallback system"


\* chat_with_customer has returned
ChatDone == fn = "chat_with_customer" /\ pc = "done"

\* the three dimensions of a box, and the numbers a message may give
Dimensions == {"width", "height", "depth"}
Numerals == {"10", "20", "30"}

\* the messages that supply the dimension name and nothing else, in the
\* three forms of a parameter assignment
SupplyingOnly(name) ==
    { name \o " is " \o n : n \in Numerals }
        \cup { "set the " \o name \o " to " \o n : n \in Numerals }
        \cup { name \o ": " \o n : n \in Numerals }

\* the dimensions a message of these forms supplies
Supplied(message) == { name \in Dimensions : message \in SupplyingOnly(name) }

\* handling i and the two after it start with a session that collects the
\* three dimensions and has none, and each of their messages supplies one
\* dimension the others do not
ThreeDimensionsFrom(i) ==
    /\ steps[i].user_id = steps[i + 1].user_id
    /\ steps[i].user_id = steps[i + 2].user_id
    /\ steps[i].before = "collecting_parameters"
    /\ steps[i].needed = Dimensions
    /\ steps[i].collected_before = {}
    /\ \A j \in i..(i + 2) : Supplied(steps[j].message) # {}
    /\ UNION { Supplied(steps[j].message) : j \in i..(i + 2) } = Dimensions

\* C1: slot-filling convergence: for a session in collecting_parameters that
\* needs width, height and depth and has collected nothing, three successive
\* messages that each supply one distinct dimension leave the session in
\* collecting_parameters, without a synthesis, after the first and after the
\* second, and on the third the collected parameters are all three, the
\* synthesis is invoked once and the session is back in general.
C1_SlotFillingConvergence ==
    \A i \in 1..(Len(steps) - 2) :
        ThreeDimensionsFrom(i) =>
            /\ steps[i].after = "collecting_parameters"
            /\ steps[i].synths = 0
            /\ steps[i].collected = Supplied(steps[i].message)
            /\ steps[i + 1].after = "collecting_parameters"
            /\ steps[i + 1].synths = 0
            /\ steps[i + 1].collected =
                   Supplied(steps[i].message) \cup Supplied(steps[i + 1].message)
            /\ steps[i + 2].collected = Dimensions
            /\ steps[i + 2].synths = 1
            /\ steps[i + 2].phases = <<"generating", "general">>
            /\ steps[i + 2].after = "general"

\* the third of three such messages has just been handled
C1_Witness ==
    /\ ChatDone
    /\ Len(steps) >= 3
    /\ ThreeDimensionsFrom(Len(steps) - 2)
    /\ Len(synth) = 1
    /\ DictGet(user_states, arg.user_id).current_state = "general"

\* C10: generating is transient: when the handling of a message has
\* finished, the phase of every user is general or collecting_parameters,
\* never generating, and a handling that made a synthesis (a completed model
\* request) ended in general.
C10_GeneratingIsTransient ==
    /\ \A u \in 1..Len(user_states) :
           user_states[u].v.current_state \in {"general", "collecting_parameters"}
    /\ \A i \in 1..Len(steps) :
           /\ steps[i].after \in {"general", "collecting_parameters"}
           /\ (steps[i].synths > 0 \/ \E p \in 1..Len(steps[i].phases) :
                                          steps[i].phases[p] = "generating")
                  => steps[i].after = "general"

\* a request that gave all its parameters and a reply that gave the last
\* ones have both gone through generating and ended in general
C10_Witness ==
    /\ ChatDone
    /\ \E i \in 1..Len(steps) :
           steps[i].before = "general" /\ steps[i].phases = <<"generating", "general">>
    /\ \E i \in 1..Len(steps) :
           /\ steps[i].before = "collecting_parameters"
           /\ steps[i].phases = <<"generating", "general">>
    /\ DictGet(user_states, arg.user_id).current_state = "general"


\* the handlings of the messages of a user, in order
HandlingsOf(user_id) == SelectSeq(steps, LAMBDA h : h.user_id = user_id)

\* C11: every handled message appends the user turn and then the assistant
\* turn to the user's history, whichever branch is taken (backend
\* unavailable, parameter prompt, synthesis, general chat, exception): after
\* n handled messages the history has exactly 2n entries, alternately of the
\* user (the n messages in order) and of the assistant, and the last entry
\* is the reply returned to the caller.
C11_HistoryAlternates ==
    /\ \A u \in 1..Len(user_states) :
           /\ Len(user_states[u].v.chat_history) = 2 * Len(HandlingsOf(user_states[u].k))
           /\ \A i \in 1..Len(user_states[u].v.chat_history) :
                  IF i % 2 = 1
                  THEN user_states[u].v.chat_history[i] =
                           Said("user", HandlingsOf(user_states[u].k)[(i + 1) \div 2].message)
                  ELSE user_states[u].v.chat_history[i].role = "assistant"
    /\ ChatDone =>
           /\ DictHas(user_states, arg.user_id)
           /\ DictGet(user_states, arg.user_id).chat_history # <<>>
           /\ DictGet(user_states, arg.user_id).chat_history[
                  Len(DictGet(user_states, arg.user_id).chat_history)]
                  = Said("assistant", ret.text)

\* a synthesis, a parameter prompt and an exception have each been answered
C11_Witness ==
    /\ ChatDone
    /\ Len(steps) = 3
    /\ steps[1].synths = 1
    /\ steps[2].phases = <<"collecting_parameters">>
    /\ steps[3].fault # "none"
    /\ Len(DictGet(user_states, arg.user_id).chat_history) = 6


\* C12: no exception raised while producing a chat response reaches the
\* caller of the handler: when the classification, the parsing, the template
\* lookup, the extraction, the synthesis or the completion raises, the
\* handler returns, as a normal reply, the fixed apology text and nothing
\* else.
C12_ExceptionsBecomeApology ==
    ChatDone =>
        /\ "text" \in DOMAIN ret
        /\ arg.env.fault # "none" => ret = [text |-> ApologyText]
        /\ \A i \in 1..Len(steps) :
               steps[i].fault # "none" =>
                   DictGet(user_states, steps[i].user_id).chat_history[2 * i]
                       = Said("assistant", ApologyText)

\* three messages in a row met an exception, each at another call, and the
\* last was answered with the apology
C12_Witness ==
    /\ ChatDone
    /\ Len(steps) = 3
    /\ {steps[1].fault, steps[2].fault, steps[3].fault}
           \in { {"classify", "parse", "lookup"}, {"extract", "synthesis", "completion"} }
    /\ ret.text = ApologyText

C14_CachedTemplateImmutable ==
    [][\A key \in DictKeys(template_cache) :
           /\ key \in DictKeys(template_cache')
           /\ DictGet(template_cache', key) = DictGet(template_cache, key)]_vars

\* the state of the user whose message has just been handled
Session == DictGet(user_states, arg.user_id)

\* the handling that has just finished
Handling == steps[Len(steps)]

\* the message just handled came in the general phase and asked for a model
ModelRequestHandled ==
    /\ ChatDone
    /\ model_loaded
    /\ Handling.before = "general"
    /\ is_model_request(arg.user_message)

\* the template the lookup of the request gave: the cached one when the
\* pipeline was not run, else the first the web served, if any
TemplateServed ==
    IF arg.env.web = Unused
    THEN DictGet(template_cache, CacheKey(parse_model_request(arg.user_message).type))
    ELSE IF arg.env.web.raises THEN NoTemplate
    ELSE FirstPage(arg.env.web.pages, parse_model_request(arg.user_message).type)

\* the needed parameters that are not among the collected ones, by key
MissingKeys(st) ==
    { key \in DictKeys(st.parameters_needed) : key \notin DictKeys(st.parameters_collected) }

\* C15: the transition out of general: with the backend loaded, a message
\* that arrives in the general phase and is classified as a model request
\* sets the current model type to the parsed type and the needed parameters
\* to those of that type (of its template when one is found, else of the
\* fallback table); the missing parameters are the needed ones minus the
\* collected ones, by key. If some are missing the phase becomes
\* collecting_parameters and the reply is a prompt without code; if none is
\* missing the synthesis runs in the same handling, the code is returned
\* inline and the phase is general again.
C15_LeavingGeneral ==
    ModelRequestHandled =>
        /\ Session.current_model = parse_model_request(arg.user_message).type
        /\ Session.parameters_needed =
               IF TemplateServed.code # ""
               THEN TemplateServed.parameters
               ELSE get_fallback_parameters(Session.current_model)
        /\ Session.parameters_collected = parse_model_request(arg.user_message).parameters
        /\ IF MissingKeys(Session) # {}
           THEN /\ Session.current_state = "collecting_parameters"
                /\ Handling.synths = 0
                /\ DOMAIN ret = {"text"}
                /\ \A key \in MissingKeys(Session) : Contains(ret.text, key)
           ELSE /\ Handling.phases = <<"generating", "general">>
                /\ Handling.synths = 1
                /\ Session.current_state = "general"
                /\ "code" \in DOMAIN ret
                /\ ret.code # ""
                /\ synth[Len(synth)].prompt = Session.current_model
                /\ synth[Len(synth)].parameters = Session.parameters_collected

\* one request was answered by a prompt and a later one by the code
C15_Witness ==
    /\ ModelRequestHandled
    /\ "code" \in DOMAIN ret
    /\ \E i \in 1..(Len(steps) - 1) :
           /\ steps[i].before = "general"
           /\ steps[i].after = "collecting_parameters"

\* the reply asks for the parameter
AsksFor(text, key) == Contains(text, "- What " \o AskedAs(key) \o " would you like?")

\* the handling of a reply in collecting_parameters, from the state old of
\* the user to the state new, with the parameters ext extracted from it
ReplyHandled(old, new, ext, reply, synths) ==
    /\ new.parameters_needed = old.parameters_needed
    /\ DictKeys(new.parameters_collected)
           = DictKeys(old.parameters_collected) \cup DictKeys(ext)
    /\ \A key \in DictKeys(ext) :
           DictGet(new.parameters_collected, key) = DictGet(ext, key)
    /\ \A key \in DictKeys(old.parameters_collected) \ DictKeys(ext) :
           DictGet(new.parameters_collected, key) = DictGet(old.parameters_collected, key)
    /\ IF MissingKeys(new) # {}
       THEN /\ new.current_state = "collecting_parameters"
            /\ synths = 0
            /\ DOMAIN reply = {"text"}
            /\ \A key \in DictKeys(new.parameters_needed) :
                   AsksFor(reply.text, key) <=> key \in MissingKeys(new)
       ELSE /\ new.current_state = "general"
            /\ synths = 1
            /\ "code" \in DOMAIN reply
            /\ reply.code # ""

\* C16: in collecting_parameters the values extracted from the message are
\* merged into the collected ones, a new value overwriting the old one of
\* its name and the names the message does not mention keeping theirs; if a
\* needed parameter is still missing the phase stays collecting_parameters
\* and the reply asks again for exactly the missing ones, otherwise the
\* synthesis runs and the phase is general again.
C16_CollectingMergesAndReprompts ==
    [][(DictHas(user_states, arg'.user_id)
          /\ DictGet(user_states, arg'.user_id).current_state = "collecting_parameters")
       => ReplyHandled(DictGet(user_states, arg'.user_id),
                       DictGet(user_states', arg'.user_id),
                       extract_parameters_from_message(
                           arg'.user_message,
                           DictGet(user_states, arg'.user_id).parameters_needed),
                       ret', Len(synth') - Len(synth))]_vars

\* a width was given and the other dimensions asked for again; then the
\* defaults were taken, the width with them, and the model was generated
C16_Witness ==
    /\ ChatDone
    /\ Len(steps) >= 3
    /\ steps[Len(steps) - 1].before = "collecting_parameters"
    /\ steps[Len(steps) - 1].message = "width is 10"
    /\ steps[Len(steps) - 1].collected = {"width"}
    /\ steps[Len(steps) - 1].after = "collecting_parameters"
    /\ Handling.message = "use defaults"
    /\ Handling.synths = 1
    /\ Session.current_state = "general"
    /\ Session.parameters_collected # << >>
    /\ DictGet(Session.parameters_collected, "width") \notin {IntV(10), FloatV(10 * Scale)}

TemplateFound == GenerateDone /\ ~LookupMissed

\* the result is labeled as the product of the static fallback
LabeledFallback == StartsAt(ret.result.source, 1, "Generated by fallback system")

\* C18: generate_code resolves in the strict order template, completion
\* backend, static fallback, and the first success wins: when the lookup
\* gives a template the result is labeled with the template's source, the
\* supplied parameters applied, and the backend is not invoked; the backend
\* is invoked at most once and only when no template was found and the
\* backend is loaded; the result is labeled fallback only when the earlier
\* steps produced no code.
C18_ResolutionOrder ==
    GenerateDone =>
        /\ TemplateFound =>
               /\ arg.llm = Unused
               /\ ~LabeledFallback
               /\ ret.result.source = DictGet(template_cache, CacheKey(arg.prompt)).source
        /\ arg.llm # Unused => (LookupMissed /\ model_loaded)
        /\ LabeledFallback => (LookupMissed /\ (~model_loaded \/ BackendFailed))

\* the code assigns twice to the one name the parameters supply
AssignedTwice ==
    /\ fn = "apply_parameters" /\ pc = "done"
    /\ Len(arg.stmts) = 2
    /\ Len(arg.parameters) = 1
    /\ arg.stmts[1].name = arg.parameters[1].k
    /\ arg.stmts[2].name = arg.parameters[1].k

\* C19: the substitution rewrites only the first "name = value;" assignment
\* of each supplied parameter name: when the code assigns several times to
\* the name, the second and later assignments keep their original value.
C19_FirstAssignmentOnly ==
    (AssignedTwice /\ ret # Raised) =>
        ret = Returned(Render(<< [name |-> arg.stmts[1].name,
                                  value |-> PyStr(arg.parameters[1].v)],
                                 arg.stmts[2] >>))

\* C20: in extract, the pass over the numbers with a unit suffix assigns the
\* value to the canonical name found in the 20 characters before the
\* number, for radius1 and radius2 as for the other dimensions: a number
\* preceded by "radius1" or "base radius" is stored under radius1, one
\* preceded by "radius2" or "top radius" under radius2.
C20_LookbackNamesConeRadii ==
    (fn = "extract" /\ pc = "done" /\ arg.kind = "cone") =>
        /\ DictHas(ret, arg.dim.name)
        /\ ~DictHas(ret, "radius")

\* C21: whenever generate_code is called with a requester id, the model
\* store is invoked once with the code that is returned, and when it
\* succeeds the id it produced is merged into the returned result, on every
\* resolution path, those that end in the static fallback after an earlier
\* step failed included.
C21_SavedOnEveryPath ==
    (GenerateDone /\ arg.user_id # "") =>
        /\ ret.save_called
        /\ arg.save_ok =>
               /\ models # << >>
               /\ models[Len(models)].user_id = arg.user_id
               /\ models[Len(models)].code = ret.result.code
               /\ ret.result.model_id = Len(models)

\* C22: the conversation state machine invokes the synthesis only when every
\* needed parameter is among the collected ones, and passes the current
\* model type and the whole collected map: no sequence of messages leads to
\* a synthesis while a needed parameter has no collected value.
C22_SynthesisOnlyWhenComplete ==
    [][Len(synth') > Len(synth) =>
           /\ Len(synth') = Len(synth) + 1
           /\ MissingKeys(DictGet(user_states', arg'.user_id)) = {}
           /\ synth'[Len(synth')].prompt = DictGet(user_states', arg'.user_id).current_model
           /\ synth'[Len(synth')].parameters
                  = DictGet(user_states', arg'.user_id).parameters_collected
           /\ synth'[Len(synth')].user_id = arg'.user_id]_vars

\* a cube was asked for, its three dimensions were missing, and the reply
\* that completed them was followed by the synthesis with all three
C22_Witness ==
    /\ ChatDone
    /\ Len(steps) = 2
    /\ steps[1].after = "collecting_parameters"
    /\ Handling.before = "collecting_parameters"
    /\ Handling.synths = 1
    /\ DictKeys(Session.parameters_needed) = {"width", "height", "depth"}
    /\ DictKeys(synth[Len(synth)].parameters) = {"width", "height", "depth"}

\* C23: while the phase is collecting_parameters the handling of any
\* message, one the classifier would accept as a new model request
\* included, leaves the current model type and the needed parameters
\* unchanged; only the collected parameters, the history and the phase
\* change, and the phase leaves collecting_parameters only when the
\* parameter set is complete and the model is generated.
C23_CollectingKeepsRequest ==
    [][(DictHas(user_states, arg'.user_id)
          /\ DictGet(user_states, arg'.user_id).current_state = "collecting_parameters")
       => /\ DictGet(user_states', arg'.user_id).current_model
                 = DictGet(user_states, arg'.user_id).current_model
          /\ DictGet(user_states', arg'.user_id).parameters_needed
                 = DictGet(user_states, arg'.user_id).parameters_needed
          /\ DictGet(user_states', arg'.user_id).current_state
                 \in {"collecting_parameters", "general"}
          /\ DictGet(user_states', arg'.user_id).current_state = "general"
                 => /\ MissingKeys(DictGet(user_states', arg'.user_id)) = {}
                    /\ Len(synth') = Len(synth) + 1]_vars

\* while the dimensions of a cube were being collected a sphere was asked
\* for: the session still collects for the cube
C23_Witness ==
    /\ ChatDone
    /\ Handling.before = "collecting_parameters"
    /\ arg.user_message = "make a sphere with radius 5"
    /\ is_model_request(arg.user_message)
    /\ Session.current_model = "cube"
    /\ Session.current_state = "collecting_parameters"

\* C24: when a new model request is accepted in the general phase the
\* collected parameters are replaced by exactly the parameters parsed from
\* that message: no value collected for an earlier request of the user is
\* carried over into the new request or into its synthesis.
C24_NewRequestStartsAfresh ==
    [][(DictHas(user_states, arg'.user_id)
          /\ DictGet(user_states, arg'.user_id).current_state = "general"
          /\ is_model_request(arg'.user_message))
       => /\ DictGet(user_states', arg'.user_id).parameters_collected
                 = parse_model_request(arg'.user_message).parameters
          /\ Len(synth') > Len(synth)
                 => synth'[Len(synth')].parameters
                        = parse_model_request(arg'.user_message).parameters]_vars

\* a sphere was generated with the radius given; the cube asked for next
\* starts with nothing collected
C24_Witness ==
    /\ ChatDone
    /\ Len(steps) >= 2
    /\ steps[Len(steps) - 1].collected # {}
    /\ steps[Len(steps) - 1].after = "general"
    /\ Handling.before = "general"
    /\ arg.user_message = "create a cube"
    /\ Session.current_model = "cube"
    /\ Session.parameters_collected = << >>

\* every needed parameter has a default that is not empty and, for a
\* number, parses
DefaultsUsable(needed) ==
    \A i \in 1..Len(needed) :
        /\ needed[i].v.default # ""
        /\ needed[i].v.type = "number" => FloatParses(needed[i].v.default)

\* the value of a usable default: float(default) for a number
UsableDefault(info) ==
    IF info.type = "number" THEN FloatV(FloatOf(info.default)) ELSE CoercedDefault(info)

\* C25: in collecting_parameters, if every needed parameter has a non-empty
\* default that parses according to its kind, one message containing "use
\* defaults" completes the parameter set, so the synthesis runs in that
\* handling and the phase is general afterwards; the values collected
\* before that message are overwritten by the defaults.
C25_UseDefaultsCompletes ==
    [][(DictHas(user_states, arg'.user_id)
          /\ DictGet(user_states, arg'.user_id).current_state = "collecting_parameters"
          /\ Contains(Lower(arg'.user_message), "use defaults")
          /\ DefaultsUsable(DictGet(user_states, arg'.user_id).parameters_needed))
       => /\ DictGet(user_states', arg'.user_id).current_state = "general"
          /\ Len(synth') = Len(synth) + 1
          /\ "code" \in DOMAIN ret'
          /\ \A i \in 1..Len(DictGet(user_states, arg'.user_id).parameters_needed) :
                 ReturnedAs(DictGet(user_states', arg'.user_id).parameters_collected,
                            DictGet(user_states, arg'.user_id).parameters_needed[i].k,
                            UsableDefault(
                                DictGet(user_states, arg'.user_id).parameters_needed[i].v))
          /\ synth'[Len(synth')].parameters
                 = DictGet(user_states', arg'.user_id).parameters_collected]_vars

\* the height of a cube was given as 20; "use defaults" then set the three
\* dimensions, the height with them, to the default 10 and the cube was
\* generated
C25_Witness ==
    /\ ChatDone
    /\ Handling.before = "collecting_parameters"
    /\ Handling.message = "use defaults"
    /\ Handling.collected_before = {"height"}
    /\ Session.parameters_needed = get_fallback_parameters("cube")
    /\ Handling.synths = 1
    /\ Session.current_state = "general"
    /\ DictGet(Session.parameters_collected, "height") = FloatV(10 * Scale)

\* C26: requester isolation of the synthesis results: a result returned by
\* generate_code carries a model id only if it was produced by the save made
\* in that same call for that same requester; it never carries the id saved
\* for another requester or by an earlier call, for any sequence of calls
\* that share the template cache.
C26_RequesterIsolation ==
    (GenerateDone /\ ret.result.model_id # 0) =>
        /\ ret.save_called
        /\ arg.save_ok
        /\ ret.result.model_id = Len(models)
        /\ models[Len(models)].user_id = arg.user_id

RateLimitDone == fn = "apply_rate_limit" /\ pc = "done"

\* the allowed calls for the key at a time from lo to hi
AllowedIn(key, lo, hi) ==
    { i \in 1..Len(steps) :
        steps[i].key = key /\ steps[i].allowed /\ lo <= steps[i].at /\ steps[i].at <= hi }

\* C27: rate limiting: for a key, a limit and a window, over any sequence of
\* apply_rate_limit calls at times that do not decrease, at most limit calls
\* are allowed within any interval of the length of the window; a call that
\* finds limit allowed requests in the window is rejected, is not recorded
\* as a request, and blocks the key, so that every call in the following
\* 2 x window seconds is rejected.
C27_RateLimit ==
    RateLimitDone =>
        /\ \A key \in RateKeys, lo \in 0..MaxTime :
               Cardinality(AllowedIn(key, lo, lo + arg.window)) <= arg.limit
        /\ \A i \in 1..Len(steps) :
               (~steps[i].blocked /\ steps[i].seen >= arg.limit) =>
                   /\ ~steps[i].allowed
                   /\ \A j \in (i + 1)..Len(steps) :
                          (steps[j].key = steps[i].key
                             /\ steps[j].at < steps[i].at + 2 * arg.window)
                              => ~steps[j].allowed
        /\ \A key \in DictKeys(rate_limiters), at \in 0..MaxTime :
               Cardinality({ r \in 1..Len(DictGet(rate_limiters, key).requests) :
                               DictGet(rate_limiters, key).requests[r] = at })
                   <= Cardinality(AllowedIn(key, at, at))

\* a key used up its limit of two, the next call was rejected and blocked
\* it, a call during the block was rejected, and a call after the block was
\* allowed again
C27_Witness ==
    /\ RateLimitDone
    /\ arg.limit = 2
    /\ Len(steps) = 5
    /\ \A i \in 1..5 : steps[i].key = "ip1"
    /\ steps[1].allowed /\ steps[2].allowed
    /\ ~steps[3].allowed /\ ~steps[3].blocked
    /\ ~steps[4].allowed /\ steps[4].blocked /\ steps[4].at > steps[3].at
    /\ steps[5].allowed

RECURSIVE SumOf(_, _, _)
\* the sum of the amounts of the calls of the log, from the i-th on, that
\* returned True for the user with the operation
SumOf(i, user_id, op) ==
    IF i > Len(steps) THEN 0
    ELSE (IF steps[i].user_id = user_id /\ steps[i].op = op /\ steps[i].ok
          THEN steps[i].amount ELSE 0)
         + SumOf(i + 1, user_id, op)

\* the transactions of the calls that returned True for the user, in order
Ledger(user_id) ==
    LET done == SelectSeq(steps, LAMBDA h : h.user_id = user_id /\ h.ok)
    IN  [i \in 1..Len(done) |->
            [type |-> IF done[i].op = "add_tokens" THEN "credit" ELSE "debit",
             amount |-> done[i].amount]]

\* no call is in progress
Quiescent == \A thread \in 1..Len(workers) : workers[thread].pc = "idle"

C29_LedgerConcurrent ==
    Quiescent =>
        \A user_id \in TokenUsers :
            /\ SumOf(1, user_id, "use_tokens") <= SumOf(1, user_id, "add_tokens")
            /\ load_user_data(token_files, user_id).balance
                   = SumOf(1, user_id, "add_tokens") - SumOf(1, user_id, "use_tokens")


VerifyDone == pc = "done" /\ fn = "verify_payment"

\* the request names a stored order and a payment, the parts verify_payment
\* requires before it looks at the signature
NamesStoredOrder(request, stored) ==
    /\ request.order_id # ""
    /\ request.razorpay_payment_id # ""
    /\ DictHas(stored, request.order_id)

\* C30: with a payment service configured, verify_payment completes an
\* order (status completed, payment id recorded, success with the order's
\* tokens) only when the service checked the signature and found it valid;
\* a request whose signature is missing or was found invalid, or that has
\* no order id, no payment id or an unknown order, fails and leaves the
\* stored orders as they were.
C30_CompletedOnlyWhenVerified ==
    (VerifyDone /\ razorpay_service # "none") =>
        LET step  == steps[Len(steps)]
            named == NamesStoredOrder(arg, step.before)
            valid == /\ arg.razorpay_signature # ""
                     /\ named
                     /\ verify_payment_signature(
                            razorpay_service,
                            [razorpay_order_id |->
                                 DictGet(step.before, arg.order_id).razorpay_order_id,
                             razorpay_payment_id |-> arg.razorpay_payment_id,
                             razorpay_signature |-> arg.razorpay_signature],
                            arg.razorpay_signature = "valid")
        IN  /\ ret.success =>
                /\ step.checked /\ valid
                /\ DictGet(orders, arg.order_id).status = "completed"
                /\ DictGet(orders, arg.order_id).payment_id = arg.razorpay_payment_id
                /\ ret.data.tokens = DictGet(step.before, arg.order_id).tokens
            /\ (~named \/ ~valid) => (~ret.success /\ orders = step.before)

====
